---- MODULE Spec2Model ----
(***************************************************************************)
(* Model of the MCP tool gateway: the tool registry (MCPServer), the       *)
(* parameter validator (BaseTool.validate), the HTTP request router        *)
(* (HTTPTransport), the Logger, the weather tool (WeatherAPITool) and the  *)
(* startup sequence (main of index.ts).                                    *)
(*                                                                         *)
(* JavaScript values are tagged records.  Every kind has its own payload   *)
(* field, so two values of different kinds are different records.          *)
(***************************************************************************)
EXTENDS Integers, Sequences, FiniteSets, TLC

\* Number of request slots: HTTP requests that can be in flight together.
NReq == 1

Reqs == 1..NReq

----------------------------------------------------------------------------
\* JavaScript values

Undefined == [kind |-> "undefined"]

Null == [kind |-> "null"]

Str(s) == [kind |-> "string", str |-> s]

Num(n) == [kind |-> "number", num |-> n]

Bool(b) == [kind |-> "boolean", bool |-> b]

Arr(s) == [kind |-> "array", items |-> s]

Obj(f) == [kind |-> "object", props |-> f]

\* A BigInt, such as 1n: a value JSON.stringify throws a TypeError on.
BigInt == [kind |-> "bigint"]

\* The object literal {}.
EmptyObj == Obj([k \in {} |-> Undefined])

\* A request body that JSON.parse rejects.
Malformed == [kind |-> "malformed"]

\* JavaScript truthiness, as used by `!x`, `x || y` and `if (x)`.
Truthy(v) ==
  CASE v.kind = "undefined" -> FALSE
    [] v.kind = "null" -> FALSE
    [] v.kind = "string" -> v.str # ""
    [] v.kind = "number" -> v.num # 0
    [] v.kind = "boolean" -> v.bool
    [] OTHER -> TRUE

\* Property read v.k on a value that is neither null nor undefined.
Get(v, k) ==
  IF v.kind = "object" /\ k \in DOMAIN v.props THEN v.props[k] ELSE Undefined

\* Optional chaining v?.k.
GetOpt(v, k) ==
  IF v.kind \in {"null", "undefined"} THEN Undefined ELSE Get(v, k)

\* String(v) as a template literal `${v}` computes it, for the values that
\* reach a template literal in the model.
ToStr(v) ==
  CASE v.kind = "string" -> v.str
    [] v.kind = "number" -> IF v.num = 5 THEN "5" ELSE "0"
    [] v.kind = "boolean" -> IF v.bool THEN "true" ELSE "false"
    [] v.kind = "null" -> "null"
    [] v.kind = "undefined" -> "undefined"
    [] v.kind = "array" -> ""
    [] v.kind = "bigint" -> "1"
    [] OTHER -> "[object Object]"

\* An Error message: the template literal of the source with its one
\* interpolated value, and the prefix sendErrorResponse puts before it.
Msg(prefix, template, arg) ==
  [prefix |-> prefix, template |-> template, arg |-> arg]

NoMsg == Msg("", "", "")

----------------------------------------------------------------------------
\* BaseTool: parameter validation.  A schema is a JavaScript value, as the
\* tool declares it in inputSchema.

\* Object.entries(o) keys of an object value.
Keys(o) == IF o.kind = "object" THEN DOMAIN o.props ELSE {}

\* convertPropertyToZod built on z.coerce: a primitive is converted to the
\* declared kind instead of being rejected.
convertPropertyToZodCoercing(prop, v) ==
  LET ty == Get(prop, "type") IN
  CASE ty = Str("string") -> v.kind \in {"string", "number", "boolean"}
    [] ty = Str("number") -> v.kind \in {"number", "string", "boolean"}
    [] ty = Str("boolean") -> TRUE
    [] ty = Str("array") -> v.kind = "array"
    [] ty = Str("object") -> v.kind = "object"
    [] OTHER -> TRUE

\* zodSchema.parse(v) succeeds, for zodSchema = convertPropertyToZod(prop).
RECURSIVE convertPropertyToZod(_, _)
convertPropertyToZod(prop, v) ==
  LET ty == Get(prop, "type") IN
  CASE ty = Str("string") -> v.kind = "string"
    [] ty = Str("number") -> v.kind = "number"
    [] ty = Str("boolean") -> v.kind = "boolean"
    [] ty = Str("array") ->
         /\ v.kind = "array"
         /\ IF Truthy(Get(prop, "items"))
            THEN \A i \in 1..Len(v.items) :
                   convertPropertyToZod(Get(prop, "items"), v.items[i])
            ELSE TRUE
    [] ty = Str("object") ->
         /\ v.kind = "object"
         /\ IF Truthy(Get(prop, "properties"))
            THEN \A key \in Keys(Get(prop, "properties")) :
                   convertPropertyToZod(Get(Get(prop, "properties"), key),
                                        Get(v, key))
            ELSE TRUE
    [] OTHER -> TRUE

\* schema.required?.includes(key)
IsRequired(schema, key) ==
  LET required == Get(schema, "required") IN
  /\ required.kind = "array"
  /\ \E i \in 1..Len(required.items) : required.items[i] = Str(key)

\* jsonSchemaToZod that ends with z.object(shape).strict(): a key that is
\* not declared is an error.
jsonSchemaToZodStrict(schema, v) ==
  IF Get(schema, "type") = Str("object")
  THEN /\ v.kind = "object"
       /\ Keys(v) \subseteq Keys(Get(schema, "properties"))
       /\ \A key \in Keys(Get(schema, "properties")) :
            \/ ~IsRequired(schema, key) /\ Get(v, key) = Undefined
            \/ convertPropertyToZod(Get(Get(schema, "properties"), key),
                                    Get(v, key))
  ELSE TRUE

\* jsonSchemaToZod that converts a schema whose type is not 'object' with
\* convertPropertyToZod instead of returning z.any().
jsonSchemaToZodTyped(schema, v) ==
  IF Get(schema, "type") = Str("object")
  THEN /\ v.kind = "object"
       /\ \A key \in Keys(Get(schema, "properties")) :
            \/ ~IsRequired(schema, key) /\ Get(v, key) = Undefined
            \/ convertPropertyToZod(Get(Get(schema, "properties"), key),
                                    Get(v, key))
  ELSE convertPropertyToZod(schema, v)

\* zodSchema.parse(v) succeeds, for zodSchema = jsonSchemaToZod(schema).
jsonSchemaToZod(schema, v) ==
  IF Get(schema, "type") = Str("object")
  THEN /\ v.kind = "object"
       /\ \A key \in Keys(Get(schema, "properties")) :
            \/ ~IsRequired(schema, key) /\ Get(v, key) = Undefined
            \/ convertPropertyToZod(Get(Get(schema, "properties"), key),
                                    Get(v, key))
  ELSE TRUE

\* BaseTool.validate: a bare boolean, the zod issues are discarded.
validate(tool, params) == jsonSchemaToZod(tool.inputSchema, params)

\* BaseTool.getToolDefinition
getToolDefinition(tool) ==
  Obj(("name" :> Str(tool.name))
      @@ ("description" :> Str(tool.description))
      @@ ("inputSchema" :> tool.inputSchema))

----------------------------------------------------------------------------
\* Tools.  A tool is its three identity fields; what execute does is chosen
\* when the call settles (ExecuteSettles).

\* WeatherAPITool
WeatherAPITool ==
  [name |-> "get-weather",
   description |-> "Get current weather information for a specified location",
   inputSchema |->
     Obj(("type" :> Str("object"))
         @@ ("properties" :>
               Obj("location" :>
                     Obj(("type" :> Str("string"))
                         @@ ("description" :>
                               Str("City name (e.g., \"London\", \"New York\") or city with country code (e.g., \"London,UK\")")))))
         @@ ("required" :> Arr(<<Str("location")>>)))]

\* A second BaseTool subclass that declares the name of WeatherAPITool.
OtherWeatherTool ==
  [name |-> "get-weather",
   description |-> "Another tool under the same name",
   inputSchema |->
     Obj(("type" :> Str("object"))
         @@ ("properties" :> Obj("city" :> Obj("type" :> Str("string")))))]

\* A BaseTool subclass with no required field.
EchoTool ==
  [name |-> "echo",
   description |-> "Echo the text back",
   inputSchema |->
     Obj(("type" :> Str("object"))
         @@ ("properties" :> Obj("text" :> Obj("type" :> Str("string")))))]

\* The BaseTool instances a caller can hand to registerTool.
Tools == {WeatherAPITool, OtherWeatherTool, EchoTool}

----------------------------------------------------------------------------
\* MCPServer: the registry.  this.tools is a Map; it is modelled as the
\* sequence of its entries in insertion order.

MapHas(m, k) == \E i \in 1..Len(m) : m[i].key = k

\* Map.get(k) for a key that MapHas finds.
MapGet(m, k) == m[CHOOSE i \in 1..Len(m) : m[i].key = k].value

MapKeys(m) == {m[i].key : i \in 1..Len(m)}

\* Map.set(k, v): a new key is appended, an existing key keeps its place.
MapSet(m, k, v) ==
  IF MapHas(m, k)
  THEN [i \in 1..Len(m) |-> IF m[i].key = k THEN [key |-> k, value |-> v]
                                           ELSE m[i]]
  ELSE Append(m, [key |-> k, value |-> v])

\* MCPServer.registerTool with the duplicate test left out.
registerToolOverwrite(m, tool) ==
  [threw |-> FALSE, message |-> NoMsg, tools |-> MapSet(m, tool.name, tool)]

\* MCPServer.registerTool: the outcome and the map after the call.
registerTool(m, tool) ==
  IF MapHas(m, tool.name)
  THEN [threw |-> TRUE,
        message |-> Msg("", "Tool with name '%s' is already registered",
                        tool.name),
        tools |-> m]
  ELSE [threw |-> FALSE, message |-> NoMsg,
        tools |-> MapSet(m, tool.name, tool)]

\* MCPServer.listTools with a loop that stops one entry early.
listToolsOffByOne(m) ==
  Arr([i \in 1..(Len(m) - 1) |-> getToolDefinition(m[i].value)])

\* MCPServer.listTools
listTools(m) == Arr([i \in 1..Len(m) |-> getToolDefinition(m[i].value)])

\* MCPServer.getToolCount
getToolCount(m) == Len(m)

\* MCPServer.hasTool
hasTool(m, name) == MapHas(m, name)

\* this.tools.get(name) finds an entry: name is a request value, the keys
\* are strings.
Found(m, name) == name.kind = "string" /\ MapHas(m, name.str)

\* MCPServer.executeTool that falls back to the first registered tool when
\* the lookup misses.
executeToolFallback(m, name, params) ==
  LET tool == IF Found(m, name) THEN MapGet(m, name.str) ELSE m[1].value IN
  IF ~Found(m, name) /\ Len(m) = 0
  THEN [threw |-> TRUE,
        message |-> Msg("", "Tool '%s' not found", ToStr(name)),
        invoke |-> <<>>, steps |-> <<"lookup">>]
  ELSE IF ~validate(tool, params)
  THEN [threw |-> TRUE,
        message |-> Msg("", "Invalid parameters for tool '%s'", ToStr(name)),
        invoke |-> <<>>, steps |-> <<"lookup", "validate">>]
  ELSE [threw |-> FALSE, message |-> NoMsg,
        invoke |-> <<[tool |-> tool, params |-> params]>>,
        steps |-> <<"lookup", "validate", "execute">>]

\* MCPServer.executeTool that tests `!tool?.validate(params)` before it tests
\* `!tool`: a lookup that misses is reported as invalid parameters.
executeToolValidateFirst(m, name, params) ==
  IF ~Found(m, name)
  THEN [threw |-> TRUE,
        message |-> Msg("", "Invalid parameters for tool '%s'", ToStr(name)),
        invoke |-> <<>>, steps |-> <<"lookup", "validate">>]
  ELSE IF ~validate(MapGet(m, name.str), params)
  THEN [threw |-> TRUE,
        message |-> Msg("", "Invalid parameters for tool '%s'", ToStr(name)),
        invoke |-> <<>>, steps |-> <<"lookup", "validate">>]
  ELSE [threw |-> FALSE, message |-> NoMsg,
        invoke |-> <<[tool |-> MapGet(m, name.str), params |-> params]>>,
        steps |-> <<"lookup", "validate", "execute">>]

\* MCPServer.executeTool up to `await tool.execute(params)`: either it has
\* thrown, or execute has been invoked on the tool with params.  steps lists
\* the statements it reached: the lookup this.tools.get, tool.validate,
\* tool.execute.
executeTool(m, name, params) ==
  IF ~Found(m, name)
  THEN [threw |-> TRUE,
        message |-> Msg("", "Tool '%s' not found", ToStr(name)),
        invoke |-> <<>>, steps |-> <<"lookup">>]
  ELSE IF ~validate(MapGet(m, name.str), params)
  THEN [threw |-> TRUE,
        message |-> Msg("", "Invalid parameters for tool '%s'", ToStr(name)),
        invoke |-> <<>>, steps |-> <<"lookup", "validate">>]
  ELSE [threw |-> FALSE, message |-> NoMsg,
        invoke |-> <<[tool |-> MapGet(m, name.str), params |-> params]>>,
        steps |-> <<"lookup", "validate", "execute">>]

----------------------------------------------------------------------------
\* HTTPTransport: the request router

\* The code handleToolsCall puts in the error arm.
ToolCallErrorCode == -32603

\* An MCPResponse is a record with the fields the code gives it: result,
\* or error.

\* HTTPTransport.parseMCPRequest that takes a request without a supported
\* method for tools/list.
parseMCPRequestDefaulting(body) ==
  IF body = Malformed
  THEN [threw |-> TRUE, class |-> "SyntaxError",
        message |-> Msg("", "Unexpected token in JSON", ""),
        request |-> Undefined]
  ELSE IF /\ Get(body, "method") = Str("tools/call")
          /\ ~Truthy(GetOpt(Get(body, "params"), "name"))
  THEN [threw |-> TRUE, class |-> "Error",
        message |->
          Msg("", "Missing required field: params.name for tools/call", ""),
        request |-> Undefined]
  ELSE IF Get(body, "method") = Str("tools/call")
  THEN [threw |-> FALSE, class |-> "", message |-> NoMsg, request |-> body]
  ELSE [threw |-> FALSE, class |-> "", message |-> NoMsg,
        request |-> Obj("method" :> Str("tools/list"))]

\* HTTPTransport.parseMCPRequest on the request body.  JSON.parse throws a
\* SyntaxError on a malformed body; reading a property of null throws a
\* TypeError, which is an Error.
parseMCPRequest(body) ==
  LET method == Get(body, "method")
      Throw(class, message) ==
        [threw |-> TRUE, class |-> class, message |-> message,
         request |-> Undefined]
  IN
  IF body = Malformed
  THEN Throw("SyntaxError", Msg("", "Unexpected token in JSON", ""))
  ELSE IF body.kind = "null"
  THEN Throw("Error",
             Msg("", "Cannot read properties of null (reading 'method')", ""))
  ELSE IF ~Truthy(method)
  THEN Throw("Error", Msg("", "Missing required field: method", ""))
  ELSE IF method # Str("tools/list") /\ method # Str("tools/call")
  THEN Throw("Error", Msg("", "Unsupported method: %s", ToStr(method)))
  ELSE IF /\ method = Str("tools/call")
          /\ ~Truthy(GetOpt(Get(body, "params"), "name"))
  THEN Throw("Error",
             Msg("", "Missing required field: params.name for tools/call", ""))
  ELSE [threw |-> FALSE, class |-> "", message |-> NoMsg, request |-> body]

\* The states of a request that parseMCPRequest takes it through: Parsed
\* once JSON.parse has returned, MethodValidated once the checks of method
\* and params.name have passed.
parseMCPRequestSteps(body) ==
  IF body = Malformed THEN <<>>
  ELSE IF parseMCPRequest(body).threw THEN <<"Parsed">>
  ELSE <<"Parsed", "MethodValidated">>

\* HTTPTransport.handleToolsList that reports an empty registry as an error.
handleToolsListNonEmpty(m) ==
  IF Len(m) = 0
  THEN [error |-> [code |-> ToolCallErrorCode,
                   message |-> Msg("", "No tools registered", "")]]
  ELSE [result |-> Obj("tools" :> listTools(m))]

\* HTTPTransport.handleToolsList
handleToolsList(m) == [result |-> Obj("tools" :> listTools(m))]

\* What a handler has done when it first suspends or finishes: thrown to
\* handleRequest, produced its MCPResponse, or called executeTool and awaits
\* it.  executeTool has then invoked execute and awaits it, or it has thrown
\* before it reached execute and there is no invocation.
Thrown(message) ==
  [kind |-> "throw", message |-> message, response |-> <<>>, invoke |-> <<>>]

Produced(response) ==
  [kind |-> "response", message |-> NoMsg, response |-> response,
   invoke |-> <<>>]

Awaiting(invoke) ==
  [kind |-> "await", message |-> NoMsg, response |-> <<>>, invoke |-> invoke]

\* HTTPTransport.handleToolsCall without its try/catch: what executeTool
\* throws goes on to the catch block of handleRequest.
handleToolsCallRethrowing(m, params) ==
  LET name == Get(params, "name")
      args == Get(params, "arguments")
      call == executeTool(m, name, IF Truthy(args) THEN args ELSE EmptyObj)
  IN
  IF ~Truthy(name)
  THEN Thrown(Msg("", "Tool name is required", ""))
  ELSE IF call.threw
  THEN Thrown(call.message)
  ELSE Awaiting(call.invoke)

\* HTTPTransport.handleToolsCall that passes `args` to executeTool as it
\* is, without `|| {}`.
handleToolsCallNoDefault(m, params) ==
  LET name == Get(params, "name")
      call == executeTool(m, name, Get(params, "arguments"))
  IN
  IF ~Truthy(name)
  THEN Thrown(Msg("", "Tool name is required", ""))
  ELSE Awaiting(call.invoke)

\* HTTPTransport.handleToolsCall up to the await of executeTool.
handleToolsCall(m, params) ==
  LET name == Get(params, "name")
      args == Get(params, "arguments")
      call == executeTool(m, name, IF Truthy(args) THEN args ELSE EmptyObj)
  IN
  IF ~Truthy(name)
  THEN Thrown(Msg("", "Tool name is required", ""))
  ELSE Awaiting(call.invoke)

\* JSON.parse(JSON.stringify(v)): the value a client reads back.  A property
\* whose value is undefined is left out; undefined in an array becomes null.
RECURSIVE JSONvalue(_)
JSONvalue(v) ==
  CASE v.kind = "object" ->
         Obj([k \in {j \in DOMAIN v.props : v.props[j].kind # "undefined"} |->
                JSONvalue(v.props[k])])
    [] v.kind = "array" ->
         Arr([i \in 1..Len(v.items) |->
                IF v.items[i].kind = "undefined" THEN Null
                ELSE JSONvalue(v.items[i])])
    [] OTHER -> v

\* JSON.stringify(v) throws a TypeError: v holds a BigInt.
RECURSIVE JSONthrows(_)
JSONthrows(v) ==
  CASE v.kind = "bigint" -> TRUE
    [] v.kind = "object" -> \E k \in DOMAIN v.props : JSONthrows(v.props[k])
    [] v.kind = "array" -> \E i \in 1..Len(v.items) : JSONthrows(v.items[i])
    [] OTHER -> FALSE

\* Logger

LogLevels == {"debug", "info", "warning", "error"}

\* Logger.levelPriority
levelPriority(level) ==
  CASE level = "debug" -> 0
    [] level = "info" -> 1
    [] level = "warning" -> 2
    [] level = "error" -> 3

\* Logger.setLevel
setLevel(lg, level) == [lg EXCEPT !.currentLevel = level]

\* level.toUpperCase().padEnd(7)
levelStr(level) ==
  CASE level = "debug" -> "DEBUG  "
    [] level = "info" -> "INFO   "
    [] level = "warning" -> "WARNING"
    [] level = "error" -> "ERROR  "

\* The console method the switch of Logger.log chooses.
consoleOf(level) ==
  CASE level = "error" -> "console.error"
    [] level = "warning" -> "console.warn"
    [] OTHER -> "console.log"

\* Logger.log: the lines it writes (none, or one) and whether it threw.  The
\* level filter comes first; a context with keys is appended to the line as
\* JSON, and JSON.stringify throws on a context it cannot write.
log(currentLevel, level, context) ==
  LET withContext == Truthy(context) /\ Keys(context) # {} IN
  IF levelPriority(level) < levelPriority(currentLevel)
  THEN [written |-> <<>>, threw |-> FALSE]
  ELSE IF withContext /\ JSONthrows(context)
  THEN [written |-> <<>>, threw |-> TRUE]
  ELSE [written |-> <<[console |-> consoleOf(level),
                       level |-> levelStr(level),
                       context |-> IF withContext THEN JSONvalue(context)
                                   ELSE Undefined]>>,
        threw |-> FALSE]

\* An Error constructed with `new Error(message)`, as the three properties
\* Logger.error reads from it.
ErrorOf(message) ==
  Obj(("message" :> Str(message)) @@ ("name" :> Str("Error"))
      @@ ("stack" :> Str("<stack>")))

\* The errorContext of Logger.error: a copy of the context, to which a truthy
\* error adds its message, its name and, when it has one, its stack.
errorContext(error, context) ==
  LET spread == IF context.kind = "object" THEN context.props
                ELSE EmptyObj.props
      details == ("errorMessage" :> Get(error, "message"))
                 @@ ("errorName" :> Get(error, "name"))
      stack == IF Truthy(Get(error, "stack"))
               THEN "stackTrace" :> Get(error, "stack")
               ELSE EmptyObj.props
  IN  Obj(IF Truthy(error) THEN stack @@ details @@ spread ELSE spread)

\* What a tool's execute can do: resolve with a value, reject with an Error
\* carrying a message, or reject with a value that is not an Error.
Returns(v) == [kind |-> "return", value |-> v, message |-> ""]

ThrowsError(message) ==
  [kind |-> "throwError", value |-> Undefined, message |-> message]

ThrowsValue == [kind |-> "throwValue", value |-> Undefined, message |-> ""]

NoOutcome == [kind |-> "none", value |-> Undefined, message |-> ""]

\* The catch block of MCPServer.executeTool, as what leaves executeTool: it
\* calls Logger.error with what execute threw and with {params}, and
\* rethrows.  When JSON.stringify cannot write the errorContext, the
\* TypeError of Logger.error leaves executeTool in place of what execute
\* threw.  params is a value that JSON.parse produced, which JSON.stringify
\* writes; the level error passes the filter of every current level, info
\* among them.
executeToolCatch(o) ==
  LET error == IF o.kind = "throwError" THEN ErrorOf(o.message) ELSE o.value
      call == log("info", "error",
                  errorContext(error, Obj("params" :> EmptyObj)))
  IN  IF call.threw
      THEN ThrowsError("Do not know how to serialize a BigInt")
      ELSE o

\* HTTPTransport.handleToolsCall whose catch block answers every failure of
\* execute with the fixed message.
handleToolsCallSettledGeneric(o) ==
  IF o.kind = "return"
  THEN [result |-> o.value]
  ELSE [error |-> [code |-> ToolCallErrorCode,
                   message |-> Msg("", "Tool execution failed", "")]]

\* HTTPTransport.handleToolsCall after execute has settled.  executeTool
\* returns the tool's value, or its catch block throws; the catch block of
\* handleToolsCall answers with the message of an Error, and with the fixed
\* message for any other value.
handleToolsCallSettled(o) ==
  LET thrown == executeToolCatch(o) IN
  CASE o.kind = "return" -> [result |-> o.value]
    [] thrown.kind = "throwError" ->
         [error |-> [code |-> ToolCallErrorCode,
                     message |-> Msg("", thrown.message, "")]]
    [] OTHER ->
         [error |-> [code |-> ToolCallErrorCode,
                     message |-> Msg("", "Tool execution failed", "")]]

\* HTTPTransport.routeRequest
routeRequest(m, request) ==
  IF Get(request, "method") = Str("tools/list")
  THEN Produced(handleToolsList(m))
  ELSE IF Get(request, "method") = Str("tools/call")
  THEN handleToolsCall(m, Get(request, "params"))
  ELSE Thrown(Msg("", "Unsupported method: %s",
                  ToStr(Get(request, "method"))))

\* The statements of executeTool that handleToolsCall reaches.
handleToolsCallSteps(m, params) ==
  LET name == Get(params, "name")
      args == Get(params, "arguments")
  IN
  IF ~Truthy(name) THEN <<>>
  ELSE executeTool(m, name, IF Truthy(args) THEN args ELSE EmptyObj).steps

\* The states of a request that routeRequest takes it through: Listed when
\* it calls handleToolsList, Dispatched when it calls handleToolsCall, and
\* then the statements of executeTool.
routeRequestSteps(m, request) ==
  IF Get(request, "method") = Str("tools/list") THEN <<"Listed">>
  ELSE IF Get(request, "method") = Str("tools/call")
  THEN <<"Dispatched">> \o handleToolsCallSteps(m, Get(request, "params"))
  ELSE <<>>

\* JSON.stringify(mcpResponse) throws.
JSONstringifyThrows(response) ==
  "result" \in DOMAIN response /\ JSONthrows(response.result)

\* JSON.stringify(mcpResponse), as the body the client decodes.
JSONstringify(response) ==
  [k \in {j \in DOMAIN response :
            j # "result" \/ response.result.kind # "undefined"} |->
     IF k = "result" THEN JSONvalue(response.result) ELSE response[k]]

\* No response written yet.
NoRes == [statusCode |-> 0, body |-> <<>>]

\* HTTPTransport.sendSuccessResponse
sendSuccessResponse(mcpResponse) ==
  [statusCode |-> 200, body |-> JSONstringify(mcpResponse)]

\* HTTPTransport.sendErrorResponse
sendErrorResponse(statusCode, errorCode, message) ==
  [statusCode |-> statusCode,
   body |-> JSONstringify(
     [error |-> [code |-> statusCode,
                 message |-> Msg(errorCode, message.template, message.arg)]])]

\* HTTPTransport.handleHealthCheck that reports the count the registry had
\* when the transport was constructed, before any registration.
handleHealthCheckAtConstruction(m) ==
  [statusCode |-> 200,
   body |-> [status |-> "ok", service |-> "MCP API Converter",
             toolCount |-> 0]]

\* HTTPTransport.handleHealthCheck (the timestamp is left out)
handleHealthCheck(m) ==
  [statusCode |-> 200,
   body |-> [status |-> "ok", service |-> "MCP API Converter",
             toolCount |-> getToolCount(m)]]

\* A catch block that answers every thrown value with status 500.
handleRequestCatchAll500(class, message) ==
  [statusCode |-> 500,
   body |-> [error |-> [code |-> 500,
                        message |-> Msg("INTERNAL_ERROR",
                                        "An unexpected error occurred", "")]]]

\* The catch block of HTTPTransport.handleRequest.
handleRequestCatch(class, message) ==
  IF class = "SyntaxError"
  THEN sendErrorResponse(400, "INVALID_JSON",
                         Msg("", "Request body must be valid JSON", ""))
  ELSE IF class = "Error"
  THEN sendErrorResponse(400, "BAD_REQUEST", message)
  ELSE sendErrorResponse(500, "INTERNAL_ERROR",
                         Msg("", "An unexpected error occurred", ""))

\* The rejection handler HTTPTransport.start attaches to handleRequest,
\* left out: the rejection is unhandled, the unhandledRejection handler of
\* main shuts down and the process exits.
requestHandlerUncaught(p) == "exited"

\* The rejection handler HTTPTransport.start attaches to handleRequest: it
\* logs the error; the process goes on as it was.
requestHandlerCatch(p) == p

\* HTTPTransport.stop, called by caller, up to the point where it returns or
\* waits for the callback of server.close; srv is the state of this.server
\* and held the server it refers to.  Without a server it returns at once.
\* close on a listening server stops it listening and calls back, without an
\* error, when that server emits 'close'; close on a server that is not
\* listening (it failed to listen, or is closing already) calls back at that
\* event with ERR_SERVER_NOT_RUNNING.
stop(srv, held, pending, caller) ==
  IF srv = "null"
  THEN [server |-> srv, pending |-> pending,
        returned |-> <<[caller |-> caller, threw |-> FALSE]>>]
  ELSE [server |-> IF srv = "listening" THEN "closing" ELSE srv,
        pending |-> Append(pending, [caller |-> caller,
                                     error |-> srv # "listening",
                                     server |-> held]),
        returned |-> <<>>]

\* The callbacks HTTPTransport.stop gave to the close of one server, run by
\* the 'close' event of that server in the order of the calls: one called
\* without an error sets this.server to null, whichever server it refers to
\* by then, and resolves its stop; one called with an error rejects its stop.
stopCallbacks(srv, pending) ==
  [server |-> IF \E i \in 1..Len(pending) : ~pending[i].error
              THEN "null" ELSE srv,
   settled |-> [i \in 1..Len(pending) |->
                  [caller |-> pending[i].caller, threw |-> pending[i].error]]]

----------------------------------------------------------------------------
\* Inputs

HttpMethods == {"OPTIONS", "GET", "POST", "DELETE"}

\* {"method": method}
MethodOnly(method) == Obj("method" :> method)

\* {"method": "tools/call", "params": params}
CallWith(params) ==
  Obj(("method" :> Str("tools/call")) @@ ("params" :> params))

\* {"method": "tools/call", "params": {"name": name, "arguments": args}}
Call(name, args) ==
  CallWith(Obj(("name" :> Str(name)) @@ ("arguments" :> args)))

London == Obj("location" :> Str("London"))

\* {"method": "tools/call", "params": {"name": name}}
CallNoArgs(name) == CallWith(Obj("name" :> Str(name)))

\* Request bodies, each given as the value JSON.parse makes of it (or
\* Malformed when JSON.parse rejects it).
Bodies ==
  {Malformed, Null, EmptyObj,
   MethodOnly(Str("unknown")), MethodOnly(Str("tools/list")),
   MethodOnly(Str("tools/call")), CallWith(Obj("arguments" :> London)),
   CallNoArgs("get-weather"), Call("get-weather", EmptyObj),
   Call("get-weather", London), Call("get-weather", Obj("location" :> Num(5))),
   CallNoArgs("echo"), Call("echo", London),
   CallNoArgs("does-not-exist"), Call("does-not-exist", London),
   Call("does-not-exist", Num(5)), CallWith(Obj("name" :> Str("")))}

\* The outcomes of execute: three values returned, an Error, and two thrown
\* values that are not Errors, undefined and {message: 1n}.
Outcomes ==
  {Returns(Obj("echo" :> Str("London"))), Returns(Undefined),
   Returns(BigInt), ThrowsError("upstream unavailable"), ThrowsValue,
   [ThrowsValue EXCEPT !.value = Obj("message" :> BigInt)]}

----------------------------------------------------------------------------
\* State

VARIABLES
  tools,        \* MCPServer.tools: the entries of the Map, in insertion order
  regCall,      \* whether the last registerTool call threw, and the message
  registered,   \* the tools whose registerTool call returned normally
  process,      \* the Node process: running or exited
  pc,           \* per request: idle, done or unanswered, or what its
                \* handling waits for: body, execute, executeTool,
                \* handleToolsCall or respond (routeRequest)
  httpMethod,   \* per request: req.method
  body,         \* per request: the request body, once it has been read
  invoked,      \* per request: the execute invocations made for it
  settled,      \* per request: how its execute invocation settled
  mcpResponse,  \* per request: the MCPResponse routeRequest returned
  res,          \* per request: the HTTP response written
  lastList,     \* the descriptor list of the last tools/list request
  validation,   \* a direct call of BaseTool.validate: its inputs and result
  trace,        \* per request: the steps handleRequest has taken for it
  server,       \* HTTPTransport.server: null, or the http.Server, which is
                \* created (not listening), listening or closing
  main,         \* main of index.ts: its position, its inputs, its exit code
                \* and the shutdown signals it has received
  logger,       \* Logger.currentLevel, and the direct calls of Logger: the
                \* last one and the number of lines they wrote
  weather,      \* a WeatherAPITool instance and a direct call of its execute
  stops,        \* the calls of HTTPTransport.stop: those that wait for the
                \* 'close' event of a server, and those the last step settled
  servers       \* the http.Servers that start has created, each one created
                \* (not listening), listening, closing or closed; the one
                \* this.server refers to; per request, the server whose
                \* connection carries it

vars ==
  <<tools, regCall, registered, process, pc, httpMethod, body, invoked,
    settled, mcpResponse, res, lastList, validation, trace, server, main,
    logger, weather, stops, servers>>

\* lastList.n counts the tools/list requests handled since the last
\* registerTool call, up to 2; lastList.tools is what the last one returned.
NoList == [n |-> 0, tools |-> Arr(<<>>)]

\* No direct call of validate.
NoValidation ==
  [schema |-> Undefined, params |-> Undefined, called |-> FALSE,
   result |-> FALSE]

\* main has not been run: the server and the transport are built and
\* driven by another caller.
NoMain ==
  [pc |-> "none", startup |-> <<>>, next |-> 1, exitCode |-> 0,
   signals |-> <<>>]

\* No direct call of a Logger method.
NoLogCall ==
  [level |-> "", context |-> Undefined, written |-> <<>>, threw |-> FALSE]

\* The Logger class as it is loaded: currentLevel is LogLevel.INFO and
\* nothing has been written.
NoLog == [currentLevel |-> "info", call |-> NoLogCall, lines |-> 0]

\* No outbound request has been made for the execute call.
NoAxios ==
  [kind |-> "none", status |-> 0, text |-> "", data |-> Undefined]

\* A WeatherAPITool instance on which execute has not been called: its API
\* key, the position of the execute call, the parameters of the call, the
\* outbound requests made by the instance and by the call, how the last
\* outbound request settled, and what execute returned or threw.
NoWeather ==
  [apiKey |-> "", pc |-> "idle", params |-> Undefined, requests |-> 0,
   attempts |-> 0, axios |-> NoAxios, result |-> Undefined,
   error |-> NoMsg]

\* No call of HTTPTransport.stop has been made.
NoStops == [pending |-> <<>>, settled |-> <<>>, calls |-> 0]

\* The state after `new MCPServer()`, `new HTTPTransport(mcpServer)` and
\* `start(port)`, with the request slots R idle.
InitFor(R) ==
  /\ tools = <<>>
  /\ regCall = [threw |-> FALSE, message |-> NoMsg]
  /\ registered = {}
  /\ process = "running"
  /\ pc = [r \in R |-> "idle"]
  /\ httpMethod = [r \in R |-> ""]
  /\ body = [r \in R |-> Undefined]
  /\ invoked = [r \in R |-> <<>>]
  /\ settled = [r \in R |-> NoOutcome]
  /\ mcpResponse = [r \in R |-> <<>>]
  /\ res = [r \in R |-> NoRes]
  /\ lastList = NoList
  /\ validation = NoValidation
  /\ trace = [r \in R |-> <<>>]
  /\ server = "listening"
  /\ main = NoMain
  /\ logger = NoLog
  /\ weather = NoWeather
  /\ stops = NoStops
  /\ servers = [made |-> <<"listening">>, held |-> 1,
                conn |-> [r \in DOMAIN pc |-> 0]]

\* A caller invokes mcpServer.registerTool(tool).
RegisterTool(tool) ==
  LET call == registerTool(tools, tool) IN
  /\ process = "running"
  /\ tools' = call.tools
  /\ regCall' = [threw |-> call.threw, message |-> call.message]
  /\ registered' = IF call.threw THEN registered ELSE registered \cup {tool}
  /\ lastList' = NoList
  /\ UNCHANGED <<process, pc, httpMethod, body, invoked, settled, mcpResponse,
                 res, validation, trace, server, main, logger, weather,
                 stops, servers>>

\* The http.Server of the transport calls HTTPTransport.handleRequest, which
\* runs up to `await this.parseRequestBody(req)`.  A slot whose request is
\* done takes the next request.  A server delivers requests while it
\* listens and, on the connections it has, while it is closing, whether
\* this.server still refers to it or not.
HandleRequest(r, method) ==
  /\ process = "running"
  /\ pc[r] \in {"idle", "done"}
  /\ \E id \in 1..Len(servers.made) :
       /\ servers.made[id] \in {"listening", "closing"}
       /\ servers' = [servers EXCEPT !.conn[r] = id]
  /\ httpMethod' = [httpMethod EXCEPT ![r] = method]
  /\ body' = [body EXCEPT ![r] = Undefined]
  /\ invoked' = [invoked EXCEPT ![r] = <<>>]
  /\ settled' = [settled EXCEPT ![r] = NoOutcome]
  /\ mcpResponse' = [mcpResponse EXCEPT ![r] = <<>>]
  /\ IF method = "OPTIONS"
     THEN /\ res' = [res EXCEPT ![r] = [statusCode |-> 200, body |-> <<>>]]
          /\ pc' = [pc EXCEPT ![r] = "done"]
     ELSE IF method = "GET"
     THEN /\ res' = [res EXCEPT ![r] = handleHealthCheck(tools)]
          /\ pc' = [pc EXCEPT ![r] = "done"]
     ELSE IF method # "POST"
     THEN /\ res' = [res EXCEPT ![r] =
                       sendErrorResponse(405, "METHOD_NOT_ALLOWED",
                         Msg("", "Only GET and POST requests are supported",
                             ""))]
          /\ pc' = [pc EXCEPT ![r] = "done"]
     ELSE /\ res' = [res EXCEPT ![r] = NoRes]
          /\ pc' = [pc EXCEPT ![r] = "body"]
  /\ trace' = [trace EXCEPT ![r] =
                 <<"Received">>
                 \o (IF method \in {"OPTIONS", "GET"} THEN <<"Responded">>
                     ELSE IF method # "POST" THEN <<"ErrorResponded">>
                     ELSE <<>>)]
  /\ UNCHANGED <<tools, regCall, registered, process, lastList, validation,
                 server, main, logger, weather, stops>>

\* parseRequestBody resolves with body b, which has come in on a connection
\* of a server that has not emitted 'close': handleRequest runs parseMCPRequest
\* and calls routeRequest, which runs up to its first suspension: the
\* handlers read the registry here.  What parseMCPRequest throws is answered
\* in this same turn; the MCPResponse of a handler is sent in a later turn
\* (RouteSettles), once the awaits of routeRequest and handleRequest have
\* resumed.  A call suspends at the await of executeTool: executeTool has
\* invoked execute and awaits it, or it has thrown, at the lookup or at
\* validate, and the catch block of handleToolsCall runs in a later turn
\* (ExecuteToolSettles).
BodyParsed(r, b) ==
  LET parsed == parseMCPRequest(b)
      routed == IF parsed.threw THEN Thrown(parsed.message)
                ELSE routeRequest(tools, parsed.request)
      class == IF parsed.threw THEN parsed.class ELSE "Error"
  IN
  /\ process = "running"
  /\ pc[r] = "body"
  /\ servers.made[servers.conn[r]] \in {"listening", "closing"}
  /\ body' = [body EXCEPT ![r] = b]
  /\ invoked' = [invoked EXCEPT ![r] = routed.invoke]
  /\ mcpResponse' = [mcpResponse EXCEPT ![r] = routed.response]
  /\ res' = [res EXCEPT ![r] =
               IF routed.kind = "throw"
               THEN handleRequestCatch(class, routed.message)
               ELSE NoRes]
  /\ pc' = [pc EXCEPT ![r] =
              CASE routed.kind = "throw" -> "done"
                [] routed.kind = "response" -> "respond"
                [] routed.invoke = <<>> -> "executeTool"
                [] OTHER -> "execute"]
  /\ lastList' = IF ~parsed.threw
                    /\ Get(parsed.request, "method") = Str("tools/list")
                 THEN [n |-> IF lastList.n = 0 THEN 1 ELSE 2,
                       tools |-> listTools(tools)]
                 ELSE lastList
  /\ trace' = [trace EXCEPT ![r] =
                 @ \o parseMCPRequestSteps(b)
                   \o (IF parsed.threw THEN <<>>
                       ELSE routeRequestSteps(tools, parsed.request))
                   \o (IF routed.kind = "throw" THEN <<"ErrorResponded">>
                       ELSE <<>>)]
  /\ UNCHANGED <<tools, regCall, registered, process, httpMethod, settled,
                 validation, server, main, logger, weather, stops, servers>>

\* The awaited routeRequest has resolved with the MCPResponse of its
\* handler and handleRequest resumes: it sends the response.  When
\* JSON.stringify throws in sendSuccessResponse, after writeHead(200), the
\* catch block of handleRequest calls sendErrorResponse, whose setHeader
\* throws because the headers are already written; handleRequest rejects,
\* res.end is never called and the client receives nothing.
RouteSettles(r) ==
  /\ process = "running"
  /\ pc[r] = "respond"
  /\ IF JSONstringifyThrows(mcpResponse[r])
     THEN /\ res' = [res EXCEPT ![r] = NoRes]
          /\ pc' = [pc EXCEPT ![r] = "unanswered"]
          /\ trace' = trace
          /\ process' = requestHandlerCatch(process)
     ELSE /\ res' = [res EXCEPT ![r] = sendSuccessResponse(mcpResponse[r])]
          /\ pc' = [pc EXCEPT ![r] = "done"]
          /\ trace' = [trace EXCEPT ![r] = Append(@, "Responded")]
          /\ process' = process
  /\ UNCHANGED <<tools, regCall, registered, httpMethod, body, invoked,
                 settled, mcpResponse, lastList, validation, server, main,
                 logger, weather, stops, servers>>

\* BodyError where the catch block empties the registry.
BodyErrorClearing(r) ==
  /\ process = "running"
  /\ pc[r] = "body"
  /\ res' = [res EXCEPT ![r] =
               handleRequestCatch("Error", Msg("", "aborted", ""))]
  /\ pc' = [pc EXCEPT ![r] = "done"]
  /\ tools' = <<>>
  /\ trace' = [trace EXCEPT ![r] = Append(@, "ErrorResponded")]
  /\ UNCHANGED <<regCall, registered, process, httpMethod, body, invoked,
                 settled, mcpResponse, lastList, validation, server, main,
                 logger, weather, stops, servers>>

\* BodyError where the 'error' event of the request stream is also handled
\* after the response has been sent, and an error response is sent again.
BodyErrorAfterResponse(r) ==
  /\ process = "running"
  /\ pc[r] \in {"body", "done"}
  /\ httpMethod[r] = "POST"
  /\ res' = [res EXCEPT ![r] =
               handleRequestCatch("Error", Msg("", "aborted", ""))]
  /\ pc' = [pc EXCEPT ![r] = "done"]
  /\ trace' = [trace EXCEPT ![r] = Append(@, "ErrorResponded")]
  /\ UNCHANGED <<tools, regCall, registered, process, httpMethod, body,
                 invoked, settled, mcpResponse, lastList, validation, server,
                 main, logger, weather, stops, servers>>

\* The request stream emits 'error', the client having closed the connection
\* before the end of the body: parseRequestBody rejects with an Error.
BodyError(r) ==
  /\ process = "running"
  /\ pc[r] = "body"
  /\ res' = [res EXCEPT ![r] =
               handleRequestCatch("Error", Msg("", "aborted", ""))]
  /\ pc' = [pc EXCEPT ![r] = "done"]
  /\ trace' = [trace EXCEPT ![r] = Append(@, "ErrorResponded")]
  /\ UNCHANGED <<tools, regCall, registered, process, httpMethod, body,
                 invoked, settled, mcpResponse, lastList, validation, server,
                 main, logger, weather, stops, servers>>

\* ExecuteSettles where executeTool unregisters a tool whose execute threw.
ExecuteSettlesEvicting(r, o) ==
  /\ process = "running"
  /\ pc[r] = "execute"
  /\ settled' = [settled EXCEPT ![r] = o]
  /\ pc' = [pc EXCEPT ![r] = "executeTool"]
  /\ tools' = IF o.kind = "return" THEN tools
              ELSE SelectSeq(tools,
                             LAMBDA e : e.key # invoked[r][1].tool.name)
  /\ UNCHANGED <<regCall, registered, process, httpMethod, body, invoked,
                 mcpResponse, res, lastList, validation, trace, server, main,
                 logger, weather, stops, servers>>

\* ExecuteSettles where the tool instance keeps the outcome of its last call
\* and every request that awaits this tool settles with it.
ExecuteSettlesShared(r, o) ==
  LET waiting == {q \in DOMAIN pc : pc[q] = "execute"
                                    /\ invoked[q] = invoked[r]}
  IN
  /\ process = "running"
  /\ pc[r] = "execute"
  /\ settled' = [q \in DOMAIN pc |-> IF q \in waiting THEN o ELSE settled[q]]
  /\ pc' = [q \in DOMAIN pc |-> IF q \in waiting THEN "executeTool"
                               ELSE pc[q]]
  /\ UNCHANGED <<tools, regCall, registered, process, httpMethod, body,
                 invoked, mcpResponse, res, lastList, validation, trace,
                 server, main, logger, weather, stops, servers>>

\* ExecuteSettles where executeTool calls execute a second time when the
\* first call has failed.
ExecuteSettlesRetrying(r, o) ==
  LET retry == o.kind # "return" /\ Len(invoked[r]) = 1 IN
  /\ process = "running"
  /\ pc[r] = "execute"
  /\ settled' = [settled EXCEPT ![r] = o]
  /\ invoked' = [invoked EXCEPT ![r] =
                   IF retry THEN Append(@, invoked[r][1]) ELSE @]
  /\ pc' = [pc EXCEPT ![r] = IF retry THEN "execute" ELSE "executeTool"]
  /\ UNCHANGED <<tools, regCall, registered, process, httpMethod, body,
                 mcpResponse, res, lastList, validation, trace, server, main,
                 logger, weather, stops, servers>>

\* The awaited execute settles with outcome o and executeTool resumes: it
\* returns the value, or its catch block logs and throws.  handleToolsCall,
\* which awaits executeTool, resumes in a later turn.
ExecuteSettles(r, o) ==
  /\ process = "running"
  /\ pc[r] = "execute"
  /\ settled' = [settled EXCEPT ![r] = o]
  /\ pc' = [pc EXCEPT ![r] = "executeTool"]
  /\ UNCHANGED <<tools, regCall, registered, process, httpMethod, body,
                 invoked, mcpResponse, res, lastList, validation, trace,
                 server, main, logger, weather, stops, servers>>

\* The awaited executeTool has settled and handleToolsCall resumes: it
\* builds the MCPResponse, the result arm from the value returned or, in its
\* catch block, the error arm.  When executeTool threw before it reached
\* execute, the Error it threw is the one of the last statement the request
\* reached: `Tool '${name}' not found` at the lookup, `Invalid parameters
\* for tool '${name}'` at validate, with the name the request was parsed
\* with, whatever has been registered since.  routeRequest, which awaits
\* handleToolsCall, resumes in a later turn.
ExecuteToolSettles(r) ==
  LET name == Get(Get(parseMCPRequest(body[r]).request, "params"), "name")
      thrown == IF trace[r][Len(trace[r])] = "lookup"
                THEN Msg("", "Tool '%s' not found", ToStr(name))
                ELSE Msg("", "Invalid parameters for tool '%s'", ToStr(name))
  IN
  /\ process = "running"
  /\ pc[r] = "executeTool"
  /\ mcpResponse' = [mcpResponse EXCEPT ![r] =
                       IF invoked[r] = <<>>
                       THEN [error |-> [code |-> ToolCallErrorCode,
                                        message |-> thrown]]
                       ELSE handleToolsCallSettled(settled[r])]
  /\ pc' = [pc EXCEPT ![r] = "handleToolsCall"]
  /\ UNCHANGED <<tools, regCall, registered, process, httpMethod, body,
                 invoked, settled, res, lastList, validation, trace, server,
                 main, logger, weather, stops, servers>>

\* The awaited handleToolsCall has resolved and routeRequest resumes: it
\* returns the MCPResponse.  handleRequest, which awaits routeRequest,
\* resumes in a later turn (RouteSettles).
ToolsCallSettles(r) ==
  /\ process = "running"
  /\ pc[r] = "handleToolsCall"
  /\ pc' = [pc EXCEPT ![r] = "respond"]
  /\ UNCHANGED <<tools, regCall, registered, process, httpMethod, body,
                 invoked, settled, mcpResponse, res, lastList, validation,
                 trace, server, main, logger, weather, stops, servers>>

NextFor(R) ==
  \/ \E tool \in Tools : RegisterTool(tool)
  \/ \E r \in R, method \in HttpMethods : HandleRequest(r, method)
  \/ \E r \in R, b \in Bodies : BodyParsed(r, b)
  \/ \E r \in R : RouteSettles(r)
  \/ \E r \in R : BodyError(r)
  \/ \E r \in R, o \in Outcomes : ExecuteSettles(r, o)
  \/ \E r \in R : ExecuteToolSettles(r)
  \/ \E r \in R : ToolsCallSettles(r)

Init == InitFor(Reqs)

Next == NextFor(Reqs)

\* One request at a time.
Spec == Init /\ [][Next]_vars

\* The request stream of a received request ends or fails, and an invoked
\* execute settles.
Fairness(R) ==
  \A r \in R :
    /\ WF_vars((\E b \in Bodies : BodyParsed(r, b)) \/ BodyError(r))
    /\ WF_vars(RouteSettles(r))
    /\ WF_vars(\E o \in Outcomes : ExecuteSettles(r, o))
    /\ WF_vars(ExecuteToolSettles(r))
    /\ WF_vars(ToolsCallSettles(r))

\* One request at a time, each handled to its end.
SpecLive == Init /\ [][Next]_vars /\ Fairness(Reqs)

\* Number of request slots where the responses of two requests are compared.
NPair == 2

\* Two requests in flight together.
SpecPair == InitFor(1..NPair) /\ [][NextFor(1..NPair)]_vars

\* Number of requests in flight together once startup is over.
NServe == 2

ServeReqs == 1..NServe

\* The registry as main leaves it before the transport starts, here with
\* two tools registered.
StartupTools ==
  registerTool(registerTool(<<>>, WeatherAPITool).tools, EchoTool).tools

ServeBodies ==
  {Malformed, MethodOnly(Str("tools/list")), Call("get-weather", London),
   Call("get-weather", EmptyObj), CallNoArgs("echo"),
   CallNoArgs("does-not-exist"), Call("does-not-exist", Num(5))}

ServeOutcomes ==
  {Returns(Obj("echo" :> Str("London"))), Returns(BigInt),
   ThrowsError("upstream unavailable")}

\* Startup is over: the tools are registered and the transport listens.
InitServe ==
  /\ tools = StartupTools
  /\ regCall = [threw |-> FALSE, message |-> NoMsg]
  /\ registered = {WeatherAPITool, EchoTool}
  /\ process = "running"
  /\ pc = [r \in ServeReqs |-> "idle"]
  /\ httpMethod = [r \in ServeReqs |-> ""]
  /\ body = [r \in ServeReqs |-> Undefined]
  /\ invoked = [r \in ServeReqs |-> <<>>]
  /\ settled = [r \in ServeReqs |-> NoOutcome]
  /\ mcpResponse = [r \in ServeReqs |-> <<>>]
  /\ res = [r \in ServeReqs |-> NoRes]
  /\ lastList = NoList
  /\ validation = NoValidation
  /\ trace = [r \in ServeReqs |-> <<>>]
  /\ server = "listening"
  /\ main = NoMain
  /\ logger = NoLog
  /\ weather = NoWeather
  /\ stops = NoStops
  /\ servers = [made |-> <<"listening">>, held |-> 1,
                conn |-> [r \in DOMAIN pc |-> 0]]

\* Requests are handled; nothing is registered any more.
NextServe ==
  \/ \E r \in ServeReqs, method \in {"GET", "POST"} : HandleRequest(r, method)
  \/ \E r \in ServeReqs, b \in ServeBodies : BodyParsed(r, b)
  \/ \E r \in ServeReqs : RouteSettles(r)
  \/ \E r \in ServeReqs : BodyError(r)
  \/ \E r \in ServeReqs, o \in ServeOutcomes : ExecuteSettles(r, o)
  \/ \E r \in ServeReqs : ExecuteToolSettles(r)
  \/ \E r \in ServeReqs : ToolsCallSettles(r)

\* Several requests in flight against the registry of startup.
SpecServe == InitServe /\ [][NextServe]_vars

\* Several requests in flight, each handled to its end.
SpecServeLive == InitServe /\ [][NextServe]_vars /\ Fairness(ServeReqs)

----------------------------------------------------------------------------
\* Calls whose `arguments` is omitted, or is any kind of JSON value.

\* Number of request slots where the arguments of a call vary.
NArgs == 1

ArgReqs == 1..NArgs

\* The values of `arguments` in a request body.
ArgValues ==
  {Null, Num(0), Num(5), Str(""), Str("London"), Bool(FALSE), Bool(TRUE),
   Arr(<<>>), Arr(<<Str("London")>>), EmptyObj, London}

\* The tools a caller registers here: one with a required field, one with
\* none.
ArgTools == {WeatherAPITool, EchoTool}

\* tools/call bodies for the two tool names, without `arguments` and with
\* each of ArgValues.
ArgBodies ==
  {CallNoArgs(name) : name \in {"get-weather", "echo"}}
  \cup {Call(name, args) : name \in {"get-weather", "echo"},
                            args \in ArgValues}

InitArgs == InitFor(ArgReqs)

NextArgs ==
  \/ \E tool \in ArgTools : RegisterTool(tool)
  \/ \E r \in ArgReqs : HandleRequest(r, "POST")
  \/ \E r \in ArgReqs, b \in ArgBodies : BodyParsed(r, b)
  \/ \E r \in ArgReqs : RouteSettles(r)
  \/ \E r \in ArgReqs : BodyError(r)
  \/ \E r \in ArgReqs, o \in ServeOutcomes : ExecuteSettles(r, o)
  \/ \E r \in ArgReqs : ExecuteToolSettles(r)
  \/ \E r \in ArgReqs : ToolsCallSettles(r)

\* tools/call requests with every kind of `arguments`.
SpecArgs == InitArgs /\ [][NextArgs]_vars

----------------------------------------------------------------------------
\* Registration of tools under any name.

\* Number of request slots where the names of the registry are examined.
NNames == 1

NameReqs == 1..NNames

\* A BaseTool subclass that declares the empty string as its name.
NamelessTool ==
  [name |-> "",
   description |-> "A tool without a name",
   inputSchema |->
     Obj(("type" :> Str("object")) @@ ("properties" :> EmptyObj))]

NameTools == {WeatherAPITool, EchoTool, NamelessTool}

NameBodies ==
  {MethodOnly(Str("tools/list")), CallWith(Obj("name" :> Str(""))),
   CallNoArgs("echo")}

InitNames == InitFor(NameReqs)

NextNames ==
  \/ \E tool \in NameTools : RegisterTool(tool)
  \/ \E r \in NameReqs, method \in {"GET", "POST"} : HandleRequest(r, method)
  \/ \E r \in NameReqs, b \in NameBodies : BodyParsed(r, b)
  \/ \E r \in NameReqs : RouteSettles(r)
  \/ \E r \in NameReqs : BodyError(r)
  \/ \E r \in NameReqs, o \in ServeOutcomes : ExecuteSettles(r, o)
  \/ \E r \in NameReqs : ExecuteToolSettles(r)
  \/ \E r \in NameReqs : ToolsCallSettles(r)

\* Tools of any name are registered, listed and called.
SpecNames == InitNames /\ [][NextNames]_vars

----------------------------------------------------------------------------
\* Logger: the level filter.

\* The most lines the direct calls of Logger write.
MaxLines == 3

\* The error argument of Logger.error: absent, new Error("boom"), and a thrown
\* value that is not an Error, {message: 1n}.
LogErrors == {Undefined, ErrorOf("boom"), Obj("message" :> BigInt)}

\* The context argument of a log call: absent, {}, {count: 5}, {id: 1n}.
LogContexts ==
  {Undefined, EmptyObj, Obj("count" :> Num(5)), Obj("id" :> BigInt)}

\* The Logger class is loaded; nothing else runs.
InitLog ==
  /\ tools = <<>>
  /\ regCall = [threw |-> FALSE, message |-> NoMsg]
  /\ registered = {}
  /\ process = "running"
  /\ pc = [r \in {} |-> "idle"]
  /\ httpMethod = [r \in {} |-> ""]
  /\ body = [r \in {} |-> Undefined]
  /\ invoked = [r \in {} |-> <<>>]
  /\ settled = [r \in {} |-> NoOutcome]
  /\ mcpResponse = [r \in {} |-> <<>>]
  /\ res = [r \in {} |-> NoRes]
  /\ lastList = NoList
  /\ validation = NoValidation
  /\ trace = [r \in {} |-> <<>>]
  /\ server = "null"
  /\ main = NoMain
  /\ logger = NoLog
  /\ weather = NoWeather
  /\ stops = NoStops
  /\ servers = [made |-> <<>>, held |-> 0,
                conn |-> [r \in DOMAIN pc |-> 0]]

\* A caller invokes Logger.setLevel(level).
SetLevel(level) ==
  /\ logger' = setLevel(logger, level)
  /\ UNCHANGED <<tools, regCall, registered, process, pc, httpMethod, body,
                 invoked, settled, mcpResponse, res, lastList, validation,
                 trace, server, main, weather, stops, servers>>

\* A caller invokes Logger.debug, info or warning, which call Logger.log with
\* their level and the context, or Logger.error, which takes an error as
\* well and calls Logger.log with the errorContext.
Log(level, error, context) ==
  LET call == log(logger.currentLevel, level,
                  IF level = "error" THEN errorContext(error, context)
                  ELSE context) IN
  /\ logger.lines < MaxLines
  /\ level # "error" => error = Undefined
  /\ logger' = [logger EXCEPT
                  !.call = [level |-> level, context |-> context,
                            written |-> call.written, threw |-> call.threw],
                  !.lines = @ + Len(call.written)]
  /\ UNCHANGED <<tools, regCall, registered, process, pc, httpMethod, body,
                 invoked, settled, mcpResponse, res, lastList, validation,
                 trace, server, main, weather, stops, servers>>

NextLog ==
  \/ \E level \in LogLevels : SetLevel(level)
  \/ \E level \in LogLevels, error \in LogErrors, context \in LogContexts :
       Log(level, error, context)

\* Direct calls of the Logger.
SpecLog == InitLog /\ [][NextLog]_vars

----------------------------------------------------------------------------
\* WeatherAPITool.execute called directly.

\* The most outbound requests an instance makes.
MaxRequests == 3

\* process.env.WEATHER_API_KEY || ''
ApiKeys == {"", "key"}

WeatherParams ==
  {London, EmptyObj, Null, Obj("location" :> Num(5)),
   Obj("location" :> Str("")),
   Obj(("location" :> Str("London")) @@ ("units" :> Str("metric")))}

\* The body of a 200 response of the weather API.
WeatherData(name, current) ==
  Obj(("location" :> Obj("name" :> name)) @@ ("current" :> current))

Current ==
  Obj(("temp_c" :> Num(5)) @@ ("condition" :> Obj("text" :> Str("Sunny")))
      @@ ("humidity" :> Num(5)) @@ ("wind_kph" :> Num(5)))

\* How axios.get settles: it resolves with a response, or rejects with an
\* AxiosError that has a response (with its status and statusText), that has
\* a request only, or that has neither (with its message).
AxiosResolves(data) ==
  [kind |-> "response", status |-> 200, text |-> "OK", data |-> data]

AxiosStatus(status, statusText) ==
  [kind |-> "errorResponse", status |-> status, text |-> statusText,
   data |-> Undefined]

AxiosNoResponse ==
  [kind |-> "errorRequest", status |-> 0, text |-> "timeout of 10000ms exceeded",
   data |-> Undefined]

AxiosSetup ==
  [kind |-> "errorSetup", status |-> 0, text |-> "Invalid URL",
   data |-> Undefined]

AxiosOutcomes ==
  {AxiosResolves(WeatherData(Str("London"), Current)),
   AxiosResolves(WeatherData(Undefined, Current)),
   AxiosResolves(EmptyObj),
   AxiosResolves(WeatherData(Str("London"), Null)),
   AxiosResolves(Null), AxiosResolves(Undefined),
   AxiosStatus(401, "Unauthorized"), AxiosStatus(404, "Not Found"),
   AxiosStatus(429, "Too Many Requests"),
   AxiosStatus(500, "Internal Server Error"),
   AxiosNoResponse, AxiosSetup}

\* WeatherAPITool.transformResponse throws a TypeError: data, or
\* data.current, is null or undefined.
transformResponseThrows(data) ==
  \/ data.kind \in {"null", "undefined"}
  \/ Get(data, "current").kind \in {"null", "undefined"}

\* WeatherAPITool.transformResponse (the timestamp is left out).  temp_c is
\* in whole degrees, which Math.round(temp_c * 10) / 10 leaves as they are.
transformResponse(data, requestedLocation) ==
  LET name == GetOpt(Get(data, "location"), "name")
      current == Get(data, "current")
      temp == Get(current, "temp_c")
      text == GetOpt(Get(current, "condition"), "text")
  IN
  Obj(("location" :> IF Truthy(name) THEN name ELSE requestedLocation)
      @@ ("temperature" :> IF temp.kind = "number"
                           THEN Num((temp.num * 10) \div 10) ELSE Null)
      @@ ("temperatureUnit" :> Str("celsius"))
      @@ ("conditions" :> IF Truthy(text) THEN text ELSE Str("Unknown"))
      @@ ("humidity" :> Get(current, "humidity"))
      @@ ("windSpeed" :> Get(current, "wind_kph")))

\* The message of the Error the catch block of execute throws, for an
\* AxiosError and for the TypeError of transformResponse, which reads
\* `data.location` first, on a data that is null or undefined, and
\* `data.current.temp_c` next, on a current that is null or undefined.
executeCatch(a, location) ==
  LET typeError ==
        CASE a.data.kind = "null" ->
               "Cannot read properties of null (reading 'location')"
          [] a.data.kind = "undefined" ->
               "Cannot read properties of undefined (reading 'location')"
          [] Get(a.data, "current").kind = "null" ->
               "Cannot read properties of null (reading 'temp_c')"
          [] OTHER -> "Cannot read properties of undefined (reading 'temp_c')"
  IN
  CASE a.kind = "errorResponse" /\ a.status = 401 ->
         Msg("", "Invalid API key. Please check WEATHER_API_KEY configuration.",
             "")
    [] a.kind = "errorResponse" /\ a.status = 404 ->
         Msg("",
             "Location \"%s\" not found. Please check the location name and try again.",
             ToStr(location))
    [] a.kind = "errorResponse" /\ a.status = 429 ->
         Msg("", "API rate limit exceeded. Please try again later.", "")
    [] a.kind = "errorResponse" -> Msg("", "Weather API error: %s", a.text)
    [] a.kind = "errorRequest" ->
         Msg("",
             "Weather API request timeout or network error. Please check your connection.",
             "")
    [] a.kind = "errorSetup" -> Msg("", "Weather API request error: %s", a.text)
    [] OTHER -> Msg("", "Unexpected error: %s", typeError)

\* WeatherAPITool.execute that calls the API before it looks at its
\* parameters and its key.
executeUnchecked(w, params) ==
  [w EXCEPT !.params = params, !.axios = NoAxios, !.result = Undefined,
            !.pc = "request", !.error = NoMsg, !.attempts = 1,
            !.requests = @ + 1]

\* WeatherAPITool.execute up to `await axios.get(...)`.
execute(w, params) ==
  LET call == [w EXCEPT !.params = params, !.axios = NoAxios,
                        !.result = Undefined, !.attempts = 0]
  IN
  IF ~validate(WeatherAPITool, params)
  THEN [call EXCEPT
          !.pc = "settled",
          !.error =
            Msg("",
                "Invalid parameters: location is required and must be a string",
                "")]
  ELSE IF call.apiKey = ""
  THEN [call EXCEPT
          !.pc = "settled",
          !.error =
            Msg("",
                "Weather API key not configured. Please set WEATHER_API_KEY environment variable.",
                "")]
  ELSE [call EXCEPT !.pc = "request", !.error = NoMsg, !.attempts = 1,
                    !.requests = @ + 1]

\* WeatherAPITool.execute from the point axios.get has settled: it returns
\* the transformed data, or its catch block throws an Error.
executeSettled(w, a) ==
  IF a.kind = "response" /\ ~transformResponseThrows(a.data)
  THEN [w EXCEPT !.pc = "settled", !.axios = a,
                 !.result = transformResponse(a.data,
                                              Get(w.params, "location"))]
  ELSE [w EXCEPT !.pc = "settled", !.axios = a,
                 !.error = executeCatch(a, Get(w.params, "location"))]

\* A WeatherAPITool has been constructed, with or without an API key.
InitWeather ==
  /\ tools = <<>>
  /\ regCall = [threw |-> FALSE, message |-> NoMsg]
  /\ registered = {}
  /\ process = "running"
  /\ pc = [r \in {} |-> "idle"]
  /\ httpMethod = [r \in {} |-> ""]
  /\ body = [r \in {} |-> Undefined]
  /\ invoked = [r \in {} |-> <<>>]
  /\ settled = [r \in {} |-> NoOutcome]
  /\ mcpResponse = [r \in {} |-> <<>>]
  /\ res = [r \in {} |-> NoRes]
  /\ lastList = NoList
  /\ validation = NoValidation
  /\ trace = [r \in {} |-> <<>>]
  /\ server = "null"
  /\ main = NoMain
  /\ logger = NoLog
  /\ weather \in {[NoWeather EXCEPT !.apiKey = key] : key \in ApiKeys}
  /\ stops = NoStops
  /\ servers = [made |-> <<>>, held |-> 0,
                conn |-> [r \in DOMAIN pc |-> 0]]

\* A caller invokes weatherTool.execute(params).
WeatherExecute(params) ==
  /\ weather.pc \in {"idle", "settled"}
  /\ weather.requests < MaxRequests
  /\ weather' = execute(weather, params)
  /\ UNCHANGED <<tools, regCall, registered, process, pc, httpMethod, body,
                 invoked, settled, mcpResponse, res, lastList, validation,
                 trace, server, main, logger, stops, servers>>

\* The awaited axios.get settles.
AxiosSettles(a) ==
  /\ weather.pc = "request"
  /\ weather' = executeSettled(weather, a)
  /\ UNCHANGED <<tools, regCall, registered, process, pc, httpMethod, body,
                 invoked, settled, mcpResponse, res, lastList, validation,
                 trace, server, main, logger, stops, servers>>

NextWeather ==
  \/ \E params \in WeatherParams : WeatherExecute(params)
  \/ \E a \in AxiosOutcomes : AxiosSettles(a)

\* Direct calls of WeatherAPITool.execute, one at a time.
SpecWeather == InitWeather /\ [][NextWeather]_vars

----------------------------------------------------------------------------
\* main of index.ts, from its first statement to the listening transport.

\* The most registerTool calls main makes before it starts the transport.
MaxStartup == 2

\* The tools main creates and registers, in the order of its registerTool
\* calls (the repository's main registers WeatherAPITool alone).
StartupLists == UNION {[1..n -> Tools] : n \in 1..MaxStartup}

\* Number of request slots once main has started the transport.
NMain == 1

MainReqs == 1..NMain

\* process.env, with "" for a variable that is not set.
Envs ==
  {[LOG_LEVEL |-> l, PORT |-> port] :
     l \in {"", "debug", "ERROR", "verbose"}, port \in {"", "3000", "70000"}}

\* String.prototype.toLowerCase, on the strings of Envs.
toLowerCase(str) == IF str = "ERROR" THEN "error" ELSE str

\* parseInt(str, 10), on the strings of Envs.
parseInt(str) == IF str = "3000" THEN 3000 ELSE 70000

\* validateConfiguration throws: LOG_LEVEL or PORT is set and invalid.
validateConfiguration(env) ==
  \/ env.LOG_LEVEL # "" /\ toLowerCase(env.LOG_LEVEL) \notin LogLevels
  \/ env.PORT # "" /\ (parseInt(env.PORT) < 1 \/ parseInt(env.PORT) > 65535)

\* The catch block of main: process.exit(1).
mainCatch(mn) == [mn EXCEPT !.pc = "exited", !.exitCode = 1]

\* main is about to run, with the tools of one startup list to register.
InitMain ==
  /\ tools = <<>>
  /\ regCall = [threw |-> FALSE, message |-> NoMsg]
  /\ registered = {}
  /\ process = "running"
  /\ pc = [r \in MainReqs |-> "idle"]
  /\ httpMethod = [r \in MainReqs |-> ""]
  /\ body = [r \in MainReqs |-> Undefined]
  /\ invoked = [r \in MainReqs |-> <<>>]
  /\ settled = [r \in MainReqs |-> NoOutcome]
  /\ mcpResponse = [r \in MainReqs |-> <<>>]
  /\ res = [r \in MainReqs |-> NoRes]
  /\ lastList = NoList
  /\ validation = NoValidation
  /\ trace = [r \in MainReqs |-> <<>>]
  /\ server = "null"
  /\ main \in {[pc |-> "config", startup |-> l, next |-> 1, exitCode |-> 0,
                  signals |-> <<>>] : l \in StartupLists}
  /\ logger = NoLog
  /\ weather = NoWeather
  /\ stops = NoStops
  /\ servers = [made |-> <<>>, held |-> 0,
                conn |-> [r \in DOMAIN pc |-> 0]]

\* main: validateConfiguration and Logger.setLevel.
MainConfigure(env) ==
  /\ process = "running"
  /\ main.pc = "config"
  /\ IF validateConfiguration(env)
     THEN /\ main' = mainCatch(main)
          /\ process' = "exited"
          /\ logger' = logger
     ELSE /\ main' = [main EXCEPT !.pc = "register"]
          /\ process' = process
          /\ logger' = setLevel(logger,
                                IF env.LOG_LEVEL # ""
                                THEN toLowerCase(env.LOG_LEVEL) ELSE "info")
  /\ UNCHANGED <<tools, regCall, registered, pc, httpMethod, body, invoked,
                 settled, mcpResponse, res, lastList, validation, trace,
                 server, weather, stops, servers>>

\* MainRegister where a registerTool call that throws is logged and main goes
\* on to the next statement.
MainRegisterLenient ==
  LET call == registerTool(tools, main.startup[main.next]) IN
  /\ process = "running"
  /\ main.pc = "register"
  /\ main.next <= Len(main.startup)
  /\ tools' = call.tools
  /\ regCall' = [threw |-> call.threw, message |-> call.message]
  /\ registered' = IF call.threw THEN registered
                   ELSE registered \cup {main.startup[main.next]}
  /\ main' = [main EXCEPT !.next = @ + 1]
  /\ UNCHANGED <<process, pc, httpMethod, body, invoked, settled, mcpResponse,
                 res, lastList, validation, trace, server, logger, weather,
                 stops, servers>>

\* main: the next `mcpServer.registerTool(tool)` statement.  When it throws,
\* the catch block of main exits the process with code 1.
MainRegister ==
  LET call == registerTool(tools, main.startup[main.next]) IN
  /\ process = "running"
  /\ main.pc = "register"
  /\ main.next <= Len(main.startup)
  /\ tools' = call.tools
  /\ regCall' = [threw |-> call.threw, message |-> call.message]
  /\ registered' = IF call.threw THEN registered
                   ELSE registered \cup {main.startup[main.next]}
  /\ IF call.threw
     THEN /\ main' = mainCatch(main)
          /\ process' = "exited"
     ELSE /\ main' = [main EXCEPT !.next = @ + 1]
          /\ process' = process
  /\ UNCHANGED <<pc, httpMethod, body, invoked, settled, mcpResponse, res,
                 lastList, validation, trace, server, logger, weather, stops,
                 servers>>

\* main: `await httpTransport.start(port)`, the statement after the last
\* registerTool call.  The server listens, or emits 'error' (the port is in
\* use), start rejects and the catch block of main exits the process.
MainStart(listens) ==
  /\ process = "running"
  /\ main.pc = "register"
  /\ main.next > Len(main.startup)
  /\ IF listens
     THEN /\ server' = "listening"
          /\ main' = [main EXCEPT !.pc = "listening"]
          /\ process' = process
     ELSE /\ server' = "created"
          /\ main' = mainCatch(main)
          /\ process' = "exited"
  /\ servers' = [servers EXCEPT !.made = Append(@, server'),
                                !.held = Len(servers.made) + 1]
  /\ UNCHANGED <<tools, regCall, registered, pc, httpMethod, body, invoked,
                 settled, mcpResponse, res, lastList, validation, trace,
                 logger, weather, stops>>

\* The most calls of HTTPTransport.stop.
MaxStops == 2

\* The events main installs a handler for once the transport listens; each
\* handler calls shutdown.
Signals == {"SIGTERM", "SIGINT", "uncaughtException", "unhandledRejection"}

\* shutdown where the stop() call that settles last decides the exit code.
shutdownExitLast(stopped) ==
  IF stopped[Len(stopped)].threw THEN 1 ELSE 0

\* The exit code of the process when the stop() calls of several shutdown
\* calls settle in one turn: the continuation of the first one runs first,
\* and it calls process.exit(0) if its stop() resolved, process.exit(1) if it
\* rejected.
shutdownExit(stopped) == IF stopped[1].threw THEN 1 ELSE 0

\* A handler of main calls shutdown(signal), which runs up to
\* `await httpTransport.stop()`.
Shutdown(signal) ==
  LET call == stop(server, servers.held, stops.pending, signal) IN
  /\ process = "running"
  /\ main.pc = "listening"
  /\ stops.calls < MaxStops
  /\ server' = call.server
  /\ servers' = IF servers.held = 0 THEN servers
                ELSE [servers EXCEPT !.made[servers.held] = call.server]
  /\ stops' = [pending |-> call.pending, settled |-> call.returned,
               calls |-> stops.calls + 1]
  /\ IF call.returned # <<>>
     THEN /\ main' = [main EXCEPT
                        !.signals = Append(@, [signal |-> signal,
                                               server |-> server]),
                        !.pc = "exited",
                        !.exitCode = shutdownExit(call.returned)]
          /\ process' = "exited"
     ELSE /\ main' = [main EXCEPT
                        !.signals = Append(@, [signal |-> signal,
                                               server |-> server])]
          /\ process' = process
  /\ UNCHANGED <<tools, regCall, registered, pc, httpMethod, body, invoked,
                 settled, mcpResponse, res, lastList, validation, trace,
                 logger, weather>>

\* A server on which close has been called emits 'close': it has stopped
\* listening and its connections have ended, each one ended after its
\* response or closed by its client, whatever the state of the request it
\* carried.  The callbacks of the stop() calls that wait for this server
\* run; when main waits in shutdown, it goes on to process.exit.
ServerClosed ==
  \E id \in 1..Len(servers.made) :
    LET mine == SelectSeq(stops.pending, LAMBDA call : call.server = id)
        rest == SelectSeq(stops.pending, LAMBDA call : call.server # id)
        event == stopCallbacks(server, mine)
    IN
    /\ process = "running"
    /\ mine # <<>>
    /\ server' = event.server
    /\ servers' = [servers EXCEPT
                     !.made[id] = IF @ = "closing" THEN "closed" ELSE @,
                     !.held = IF event.server = "null" THEN 0 ELSE @]
    /\ stops' = [stops EXCEPT !.pending = rest, !.settled = event.settled]
    /\ IF main.pc = "listening"
       THEN /\ main' = [main EXCEPT !.pc = "exited",
                                    !.exitCode = shutdownExit(event.settled)]
            /\ process' = "exited"
       ELSE UNCHANGED <<main, process>>
    /\ UNCHANGED <<tools, regCall, registered, pc, httpMethod, body, invoked,
                   settled, mcpResponse, res, lastList, validation, trace,
                   logger, weather>>

NextMain ==
  \/ \E env \in Envs : MainConfigure(env)
  \/ MainRegister
  \/ \E listens \in BOOLEAN : MainStart(listens)
  \/ \E r \in MainReqs, method \in {"GET", "POST"} : HandleRequest(r, method)
  \/ \E r \in MainReqs, b \in ServeBodies : BodyParsed(r, b)
  \/ \E r \in MainReqs : RouteSettles(r)
  \/ \E r \in MainReqs : BodyError(r)
  \/ \E r \in MainReqs, o \in ServeOutcomes : ExecuteSettles(r, o)
  \/ \E r \in MainReqs : ExecuteToolSettles(r)
  \/ \E r \in MainReqs : ToolsCallSettles(r)

\* The process from the start of main on.
SpecMain == InitMain /\ [][NextMain]_vars

\* process.env with neither LOG_LEVEL nor PORT set.
DefaultEnv == [LOG_LEVEL |-> "", PORT |-> ""]

ShutdownBodies == {MethodOnly(Str("tools/list")), Call("get-weather", London)}

ShutdownOutcomes == {Returns(Obj("echo" :> Str("London"))), Returns(BigInt)}

\* main is about to run as the repository has it: it registers
\* WeatherAPITool alone.
InitShutdown == InitMain /\ main.startup = <<WeatherAPITool>>

NextShutdown ==
  \/ MainConfigure(DefaultEnv)
  \/ MainRegister
  \/ \E listens \in BOOLEAN : MainStart(listens)
  \/ \E signal \in Signals : Shutdown(signal)
  \/ ServerClosed
  \/ \E r \in MainReqs, method \in {"GET", "POST"} : HandleRequest(r, method)
  \/ \E r \in MainReqs, b \in ShutdownBodies : BodyParsed(r, b)
  \/ \E r \in MainReqs : RouteSettles(r)
  \/ \E r \in MainReqs : BodyError(r)
  \/ \E r \in MainReqs, o \in ShutdownOutcomes : ExecuteSettles(r, o)
  \/ \E r \in MainReqs : ExecuteToolSettles(r)
  \/ \E r \in MainReqs : ToolsCallSettles(r)

\* The process from the start of main to its exit on a signal.
SpecShutdown == InitShutdown /\ [][NextShutdown]_vars

----------------------------------------------------------------------------
\* HTTPTransport.start and stop called directly, with requests in between.

\* Number of request slots of the transport that is started and stopped.
NTransport == 1

TransportReqs == 1..NTransport

\* The transport has been constructed on a registry of two tools and has
\* not been started.
InitTransport ==
  /\ tools = StartupTools
  /\ regCall = [threw |-> FALSE, message |-> NoMsg]
  /\ registered = {WeatherAPITool, EchoTool}
  /\ process = "running"
  /\ pc = [r \in TransportReqs |-> "idle"]
  /\ httpMethod = [r \in TransportReqs |-> ""]
  /\ body = [r \in TransportReqs |-> Undefined]
  /\ invoked = [r \in TransportReqs |-> <<>>]
  /\ settled = [r \in TransportReqs |-> NoOutcome]
  /\ mcpResponse = [r \in TransportReqs |-> <<>>]
  /\ res = [r \in TransportReqs |-> NoRes]
  /\ lastList = NoList
  /\ validation = NoValidation
  /\ trace = [r \in TransportReqs |-> <<>>]
  /\ server = "null"
  /\ main = NoMain
  /\ logger = NoLog
  /\ weather = NoWeather
  /\ stops = NoStops
  /\ servers = [made |-> <<>>, held |-> 0,
                conn |-> [r \in DOMAIN pc |-> 0]]

\* The most http.Servers the calls of HTTPTransport.start create.
MaxServers == 3

\* A caller invokes httpTransport.start(port): start creates an http.Server
\* and assigns it to this.server, whatever this.server held; the new server
\* listens, or emits 'error' (the address is in use) and start rejects.  A
\* server this.server referred to goes on as it was, and the stop() calls
\* that wait for it go on waiting.
TransportStart(listens) ==
  /\ process = "running"
  /\ main.pc = "none"
  /\ Len(servers.made) < MaxServers
  /\ server' = IF listens THEN "listening" ELSE "created"
  /\ servers' = [servers EXCEPT !.made = Append(@, server'),
                                !.held = Len(servers.made) + 1]
  /\ stops' = [stops EXCEPT !.settled = <<>>]
  /\ UNCHANGED <<tools, regCall, registered, process, pc, httpMethod, body,
                 invoked, settled, mcpResponse, res, lastList, validation,
                 trace, main, logger, weather>>

\* A caller invokes httpTransport.stop().
TransportStop ==
  LET call == stop(server, servers.held, stops.pending, "caller") IN
  /\ process = "running"
  /\ main.pc = "none"
  /\ stops.calls < MaxStops
  /\ server' = call.server
  /\ servers' = IF servers.held = 0 THEN servers
                ELSE [servers EXCEPT !.made[servers.held] = call.server]
  /\ stops' = [pending |-> call.pending, settled |-> call.returned,
               calls |-> stops.calls + 1]
  /\ UNCHANGED <<tools, regCall, registered, process, pc, httpMethod, body,
                 invoked, settled, mcpResponse, res, lastList, validation,
                 trace, main, logger, weather>>

NextTransport ==
  \/ \E listens \in BOOLEAN : TransportStart(listens)
  \/ TransportStop
  \/ ServerClosed
  \/ \E r \in TransportReqs, method \in {"GET", "POST"} :
       HandleRequest(r, method)
  \/ \E r \in TransportReqs, b \in ServeBodies : BodyParsed(r, b)
  \/ \E r \in TransportReqs : RouteSettles(r)
  \/ \E r \in TransportReqs : BodyError(r)
  \/ \E r \in TransportReqs, o \in ServeOutcomes : ExecuteSettles(r, o)
  \/ \E r \in TransportReqs : ExecuteToolSettles(r)
  \/ \E r \in TransportReqs : ToolsCallSettles(r)

\* A transport that is started and stopped by its caller.
SpecTransport == InitTransport /\ [][NextTransport]_vars

----------------------------------------------------------------------------
\* BaseTool.validate called directly, on the schemas and values below.

\* {type: ty}
Prop(ty) == Obj("type" :> Str(ty))

\* {type: "object", properties: props, required: required}
ObjectSchema(props, required) ==
  Obj(("type" :> Str("object")) @@ ("properties" :> Obj(props))
      @@ ("required" :> Arr(required)))

\* {type: "object", properties: props}
ObjectSchemaOpen(props) ==
  Obj(("type" :> Str("object")) @@ ("properties" :> Obj(props)))

\* A BaseTool subclass whose inputSchema is schema.
ToolWith(schema) ==
  [name |-> "tool", description |-> "", inputSchema |-> schema]

PersonSchema ==
  ObjectSchema(("name" :> Prop("string")) @@ ("age" :> Prop("number"))
               @@ ("active" :> Prop("boolean")),
               <<Str("name")>>)

AddressSchema ==
  ObjectSchema("address" :>
                 ObjectSchema(("city" :> Prop("string"))
                              @@ ("zip" :> Prop("string")),
                              <<Str("city")>>),
               <<Str("address")>>)

\* The required field declares no kind.
AnyLocationSchema == ObjectSchema("location" :> EmptyObj, <<Str("location")>>)

TagsSchema ==
  ObjectSchemaOpen("tags" :> Obj(("type" :> Str("array"))
                                 @@ ("items" :> Prop("string"))))

\* A nested object that declares no properties.
MetaSchema == ObjectSchemaOpen("meta" :> Prop("object"))

\* {type: "array", items: items}
ArrayOf(items) == Obj(("type" :> Str("array")) @@ ("items" :> items))

\* An array of arrays of numbers.
RowsSchema == ObjectSchemaOpen("rows" :> ArrayOf(ArrayOf(Prop("number"))))

\* An array that declares no items.
ListSchema == ObjectSchemaOpen("list" :> Prop("array"))

\* A field of a kind convertPropertyToZod has no case for.
CountSchema == ObjectSchemaOpen("count" :> Prop("integer"))

Schemas ==
  {WeatherAPITool.inputSchema, PersonSchema, AddressSchema, AnyLocationSchema,
   TagsSchema, MetaSchema, RowsSchema, ListSchema, CountSchema,
   Prop("string"), Prop("array")}

\* {address: a}
Address(a) == Obj("address" :> a)

\* {name: "Ann"} and the field k with value v
Person(k, v) == Obj(("name" :> Str("Ann")) @@ (k :> v))

ParamValues ==
  {EmptyObj, Null, Str("London"), London, Obj("location" :> Num(5)),
   Obj("location" :> Null),
   Obj(("location" :> Str("London")) @@ ("units" :> Str("metric"))),
   Obj("name" :> Str("Ann")), Obj("name" :> Num(5)), Obj("age" :> Num(5)),
   Person("age", Num(5)), Person("age", Str("5")), Person("active", Bool(TRUE)),
   Person("active", Num(5)), Person("active", Str("true")),
   Address(Obj(("city" :> Str("Paris")) @@ ("zip" :> Str("75001")))),
   Address(Obj("city" :> Str("Paris"))), Address(Obj("zip" :> Str("75001"))),
   Address(Obj("city" :> Num(5))), Address(EmptyObj), Address(Str("Paris")),
   Obj("tags" :> Arr(<<>>)), Obj("tags" :> Arr(<<Str("a")>>)),
   Obj("tags" :> Arr(<<Str("a"), Num(5)>>)), Obj("tags" :> Str("a")),
   Obj("tags" :> Arr(<<Num(5), Str("a")>>)), Obj("tags" :> Null),
   Obj("tags" :> Obj("length" :> Num(0))),
   Obj("rows" :> Arr(<<Arr(<<Num(5)>>), Arr(<<>>)>>)),
   Obj("rows" :> Arr(<<Arr(<<Num(5)>>), Arr(<<Str("a")>>)>>)),
   Obj("rows" :> Arr(<<Arr(<<Num(5)>>), Num(5)>>)),
   Obj("list" :> Arr(<<Num(5), Str("a")>>)), Obj("list" :> Str("a")),
   Obj("count" :> Num(5)), Obj("count" :> Str("a")), Arr(<<>>),
   Obj("meta" :> EmptyObj), Obj("meta" :> London), Obj("meta" :> Str("a"))}

\* A schema and a value are at hand, no server is running requests.
InitValidate ==
  /\ tools = <<>>
  /\ regCall = [threw |-> FALSE, message |-> NoMsg]
  /\ registered = {}
  /\ process = "running"
  /\ pc = [r \in {} |-> "idle"]
  /\ httpMethod = [r \in {} |-> ""]
  /\ body = [r \in {} |-> Undefined]
  /\ invoked = [r \in {} |-> <<>>]
  /\ settled = [r \in {} |-> NoOutcome]
  /\ mcpResponse = [r \in {} |-> <<>>]
  /\ res = [r \in {} |-> NoRes]
  /\ lastList = NoList
  /\ validation \in
       {[schema |-> schema, params |-> params, called |-> FALSE,
         result |-> FALSE] : schema \in Schemas, params \in ParamValues}
  /\ trace = [r \in {} |-> <<>>]
  /\ server = "null"
  /\ main = NoMain
  /\ logger = NoLog
  /\ weather = NoWeather
  /\ stops = NoStops
  /\ servers = [made |-> <<>>, held |-> 0,
                conn |-> [r \in DOMAIN pc |-> 0]]

\* tool.validate(params) is called on a tool with the schema.
Validate ==
  /\ ~validation.called
  /\ validation' =
       [validation EXCEPT
          !.called = TRUE,
          !.result = validate(ToolWith(validation.schema), validation.params)]
  /\ UNCHANGED <<tools, regCall, registered, process, pc, httpMethod, body,
                 invoked, settled, mcpResponse, res, lastList, trace, server,
                 main, logger, weather, stops, servers>>

NextValidate == Validate

SpecValidate == InitValidate /\ [][NextValidate]_vars

----------------------------------------------------------------------------
\* Properties

\* The request slots of the specification being checked.
Slots == DOMAIN pc

\* The parts of a tools/call request body.
IsCallBody(b) == b.kind = "object" /\ Get(b, "method") = Str("tools/call")

TargetOf(b) == GetOpt(Get(b, "params"), "name")

ArgsOf(b) == GetOpt(Get(b, "params"), "arguments")

\* The request names a target, as a non-empty string.
HasTarget(b) ==
  IsCallBody(b) /\ TargetOf(b).kind = "string" /\ TargetOf(b).str # ""

\* The error arm handleToolsCall gives a failed call.
CallError(template, arg) ==
  [error |-> [code |-> ToolCallErrorCode, message |-> Msg("", template, arg)]]

\* The HTTP response is an error of the transport: status 400, an error arm
\* alone, with code 400.
IsTransportError(rs) ==
  /\ rs.statusCode = 400
  /\ DOMAIN rs.body = {"error"}
  /\ rs.body.error.code = 400
  /\ rs.body.error.message.prefix \in {"INVALID_JSON", "BAD_REQUEST"}

\* C1: registerTool on a name that is already registered throws the
\* duplicate-name error and leaves the registry as it was: the same names,
\* the same tool under that name, the same getToolCount().
C1_DuplicateRejected ==
  [][\A tool \in Tools :
       (RegisterTool(tool) /\ hasTool(tools, tool.name)) =>
         /\ regCall'.threw
         /\ regCall'.message =
              Msg("", "Tool with name '%s' is already registered", tool.name)
         /\ tools' = tools
         /\ MapKeys(tools') = MapKeys(tools)
         /\ MapGet(tools', tool.name) = MapGet(tools, tool.name)
         /\ getToolCount(tools') = getToolCount(tools)
         /\ registered' = registered]_vars

\* A second tool named get-weather has been rejected and the registry still
\* holds the first one alone.
C1_Witness ==
  /\ regCall.threw
  /\ regCall.message.arg = "get-weather"
  /\ getToolCount(tools) = 1
  /\ MapGet(tools, "get-weather") = WeatherAPITool
  /\ registered = {WeatherAPITool}

\* The statements of executeTool among the steps of a request.
CallStepsOf(tr) ==
  SelectSeq(tr, LAMBDA step : step \in {"lookup", "validate", "execute"})

\* C2: a call whose target is not in the registry when the call looks it up
\* stops at the lookup; when handleToolsCall resumes it gets the not-found
\* error naming the target for its response, whatever has been registered
\* since the lookup; routeRequest returns that response and it is the one
\* sent; execute is not invoked and the registry is not modified.
C2_UnknownToolNotFound ==
  [][\A r \in Slots :
       /\ \A b \in Bodies :
            (/\ BodyParsed(r, b)
             /\ HasTarget(b)
             /\ ~hasTool(tools, TargetOf(b).str)) =>
              /\ pc'[r] = "executeTool"
              /\ CallStepsOf(trace'[r]) = <<"lookup">>
              /\ res'[r] = NoRes
              /\ invoked'[r] = <<>>
              /\ tools' = tools
       /\ (ExecuteToolSettles(r) /\ CallStepsOf(trace[r]) = <<"lookup">>) =>
            /\ pc'[r] = "handleToolsCall"
            /\ mcpResponse'[r] =
                 CallError("Tool '%s' not found", TargetOf(body[r]).str)
            /\ invoked'[r] = <<>>
            /\ tools' = tools
       /\ (ToolsCallSettles(r) /\ CallStepsOf(trace[r]) = <<"lookup">>) =>
            /\ pc'[r] = "respond"
            /\ mcpResponse'[r] = mcpResponse[r]
            /\ invoked'[r] = <<>>
            /\ tools' = tools
       /\ (RouteSettles(r) /\ CallStepsOf(trace[r]) = <<"lookup">>) =>
            /\ pc'[r] = "done"
            /\ mcpResponse[r] =
                 CallError("Tool '%s' not found", TargetOf(body[r]).str)
            /\ res'[r] = [statusCode |-> 200, body |-> mcpResponse[r]]
            /\ invoked'[r] = <<>>
            /\ tools' = tools]_vars

\* A call to does-not-exist has been answered with the not-found error while
\* the registry holds a tool.
C2_Witness ==
  \E r \in Slots :
    /\ pc[r] = "done"
    /\ body[r] = CallNoArgs("does-not-exist")
    /\ getToolCount(tools) > 0
    /\ res[r].body = CallError("Tool '%s' not found", "does-not-exist")
    /\ invoked[r] = <<>>

\* The required fields of the tool's schema that the arguments lack.
MissingRequired(tool, args) ==
  {key \in Keys(Get(tool.inputSchema, "properties")) :
     IsRequired(tool.inputSchema, key) /\ Get(args, key) = Undefined}

\* The error arm names the field: in a violation list, or in its message.
NamesField(err, field) ==
  \/ "details" \in DOMAIN err /\ field \in err.details
  \/ err.message.arg = field

NoValidMethod(b) ==
  \/ b = Malformed
  \/ b.kind # "object"
  \/ Get(b, "method") \notin {Str("tools/list"), Str("tools/call")}

\* C4: a request body that cannot be decoded, has no method or has a method
\* other than tools/list and tools/call is answered with the transport
\* error; it is not routed as a list or a call, no tool is executed and the
\* registry is not modified.
C4_BadMethodTransportError ==
  [][\A r \in Slots, b \in Bodies :
       (BodyParsed(r, b) /\ NoValidMethod(b)) =>
         /\ pc'[r] = "done"
         /\ IsTransportError(res'[r])
         /\ mcpResponse'[r] = <<>>
         /\ invoked'[r] = <<>>
         /\ lastList' = lastList
         /\ tools' = tools]_vars

\* {"method": "unknown"} has been answered with status 400 while the
\* registry holds a tool.
C4_Witness ==
  \E r \in Slots :
    /\ pc[r] = "done"
    /\ body[r] = MethodOnly(Str("unknown"))
    /\ getToolCount(tools) > 0
    /\ IsTransportError(res[r])
    /\ res[r].body.error.message =
         Msg("BAD_REQUEST", "Unsupported method: %s", "unknown")

\* C5: a call that names a registered tool with an arguments object that
\* conforms to its schema invokes execute on that tool with those arguments,
\* and when execute has returned R, handleToolsCall builds {result: R} and
\* the response sent is {result: R}, with status 200 and no error arm.
C5_SuccessWrapsResult ==
  [][\A r \in Slots :
       /\ \A b \in Bodies :
            (/\ BodyParsed(r, b)
             /\ HasTarget(b)
             /\ hasTool(tools, TargetOf(b).str)
             /\ ArgsOf(b).kind = "object"
             /\ validate(MapGet(tools, TargetOf(b).str), ArgsOf(b))) =>
              /\ pc'[r] = "execute"
              /\ invoked'[r] =
                   <<[tool |-> MapGet(tools, TargetOf(b).str),
                      params |-> ArgsOf(b)]>>
       /\ (ExecuteToolSettles(r) /\ settled[r].kind = "return") =>
            mcpResponse'[r] = [result |-> settled[r].value]
       /\ (RouteSettles(r) /\ settled[r].kind = "return") =>
            /\ pc'[r] = "done"
            /\ body'[r] = body[r]
            /\ res'[r] = [statusCode |-> 200,
                          body |-> [result |-> settled[r].value]]]_vars

\* C6: the response to a protocol (POST) request has exactly one of the
\* result arm and the error arm.
C6_ExactlyOneArm ==
  \A r \in Slots :
    (pc[r] = "done" /\ httpMethod[r] = "POST") =>
      ("result" \in DOMAIN res[r].body) # ("error" \in DOMAIN res[r].body)

\* The failure class of a finished request, from the path it took.
FailureClass(r) ==
  CASE res[r].statusCode = 400 -> "TransportError"
    [] settled[r].kind \in {"throwError", "throwValue"} -> "ExecutionError"
    [] /\ "error" \in DOMAIN mcpResponse[r]
       /\ mcpResponse[r].error.message.template = "Tool '%s' not found" ->
         "ToolNotFoundError"
    [] /\ "error" \in DOMAIN mcpResponse[r]
       /\ mcpResponse[r].error.message.template =
            "Invalid parameters for tool '%s'" ->
         "ValidationError"
    [] OTHER -> "none"

\* C7: error responses carry a code and a message only, two failures of the
\* same class carry the same code, and two failures of different classes
\* carry different codes.
C7_CodesTellClassesApart ==
  \A r1, r2 \in Slots :
    (/\ pc[r1] = "done" /\ FailureClass(r1) # "none"
     /\ pc[r2] = "done" /\ FailureClass(r2) # "none") =>
      /\ DOMAIN res[r1].body.error = {"code", "message"}
      /\ (FailureClass(r1) = FailureClass(r2)) =
           (res[r1].body.error.code = res[r2].body.error.code)

\* C8: listTools returns one descriptor for each successfully registered
\* tool: as many descriptors as tools, the same set of names, and for each
\* tool a descriptor with its name, description and schema.
C8_ListIsComplete ==
  LET defs == listTools(tools).items IN
  (\A t1, t2 \in registered : t1 # t2 => t1.name # t2.name) =>
    /\ Len(defs) = Cardinality(registered)
    /\ {Get(defs[i], "name") : i \in 1..Len(defs)} =
         {Str(t.name) : t \in registered}
    /\ \A t \in registered :
         \E i \in 1..Len(defs) :
           /\ Get(defs[i], "name") = Str(t.name)
           /\ Get(defs[i], "description") = Str(t.description)
           /\ Get(defs[i], "inputSchema") = t.inputSchema
           /\ Keys(defs[i]) = {"name", "description", "inputSchema"}

\* Two tools with different names are registered and listed.
C8_Witness ==
  /\ Cardinality(registered) = 2
  /\ Len(listTools(tools).items) = 2
  /\ {Get(listTools(tools).items[i], "name") : i \in 1..2} =
       {Str("get-weather"), Str("echo")}

\* C9: a tools/list request handled after another one, with no registerTool
\* call between them, returns the descriptors the first one returned.
C9_ListTwiceSame ==
  [][\A r \in Slots :
       /\ \A b \in Bodies :
            (/\ BodyParsed(r, b)
             /\ b = MethodOnly(Str("tools/list"))
             /\ lastList.n > 0) =>
              /\ mcpResponse'[r] = [result |-> Obj("tools" :> lastList.tools)]
              /\ lastList'.tools = lastList.tools
       /\ (RouteSettles(r) /\ body[r] = MethodOnly(Str("tools/list"))) =>
            /\ res'[r] = [statusCode |-> 200, body |-> mcpResponse[r]]
            /\ lastList' = lastList]_vars

\* A second tools/list in a row has been answered with the descriptors of
\* the first, and there is a tool to list.
C9_Witness ==
  \E r \in Slots :
    /\ pc[r] = "done"
    /\ body[r] = MethodOnly(Str("tools/list"))
    /\ lastList.n = 2
    /\ Len(lastList.tools.items) > 0
    /\ res[r].body = [result |-> Obj("tools" :> lastList.tools)]

\* The request is a tools/call without a target name.
NoTarget(b) == IsCallBody(b) /\ TargetOf(b) = Undefined

\* C10: a call without a target name is answered with the transport error,
\* whatever the registry holds; nothing is looked up, validated or executed.
C10_NoTargetTransportError ==
  [][\A r \in Slots, b \in Bodies :
       (BodyParsed(r, b) /\ NoTarget(b)) =>
         /\ pc'[r] = "done"
         /\ IsTransportError(res'[r])
         /\ mcpResponse'[r] = <<>>
         /\ invoked'[r] = <<>>
         /\ tools' = tools]_vars

\* A call that has arguments and no target name has been answered with
\* status 400 while the registry holds a tool that accepts the arguments.
C10_Witness ==
  \E r \in Slots :
    /\ pc[r] = "done"
    /\ body[r] = CallWith(Obj("arguments" :> London))
    /\ hasTool(tools, "get-weather")
    /\ IsTransportError(res[r])
    /\ res[r].body.error.message.template =
         "Missing required field: params.name for tools/call"

\* C11: when the awaited execute has rejected, handleToolsCall builds an
\* error arm alone, routeRequest returns it, and the request ends with that
\* error arm sent with status 200, the process running; when execute
\* rejected with an Error carrying message M, the message of the error arm
\* built and sent is M.
C11_ExecutionErrorKeepsMessage ==
  [][\A r \in Slots :
       settled[r].kind \in {"throwError", "throwValue"} =>
         /\ ExecuteToolSettles(r) =>
              /\ DOMAIN mcpResponse'[r] = {"error"}
              /\ mcpResponse'[r].error.code = ToolCallErrorCode
              /\ settled[r].kind = "throwError" =>
                   mcpResponse'[r].error.message =
                     Msg("", settled[r].message, "")
         /\ ToolsCallSettles(r) =>
              /\ pc'[r] = "respond"
              /\ mcpResponse'[r] = mcpResponse[r]
              /\ process' = "running"
         /\ RouteSettles(r) =>
              /\ pc'[r] = "done"
              /\ res'[r].statusCode = 200
              /\ DOMAIN res'[r].body = {"error"}
              /\ res'[r].body = mcpResponse[r]
              /\ settled[r].kind = "throwError" =>
                   res'[r].body.error.message =
                     Msg("", settled[r].message, "")
              /\ process' = "running"]_vars

\* The call get-weather {location: "London"} has been executed, execute
\* rejected with Error("upstream unavailable") and the response carries
\* that message in its error arm.
C11_Witness ==
  \E r \in Slots :
    /\ pc[r] = "done"
    /\ body[r] = Call("get-weather", London)
    /\ settled[r] = ThrowsError("upstream unavailable")
    /\ res[r].statusCode = 200
    /\ res[r].body =
         [error |-> [code |-> ToolCallErrorCode,
                     message |-> Msg("", "upstream unavailable", "")]]

\* C12: a request parsed as tools/list is answered with status 200 and the
\* result {tools: D}, D being what listTools returns at that moment; it has
\* no error arm and invokes no tool.
C12_ListAlwaysSucceeds ==
  [][\A r \in Slots :
       /\ \A b \in Bodies :
            (/\ BodyParsed(r, b)
             /\ b.kind = "object"
             /\ Get(b, "method") = Str("tools/list")) =>
              /\ pc'[r] = "respond"
              /\ mcpResponse'[r] =
                   [result |-> Obj("tools" :> listTools(tools))]
              /\ Len(listTools(tools).items) = getToolCount(tools)
              /\ invoked'[r] = <<>>
       /\ (/\ RouteSettles(r)
           /\ Get(body[r], "method") = Str("tools/list")) =>
             /\ pc'[r] = "done"
             /\ res'[r].statusCode = 200
             /\ res'[r].body = mcpResponse[r]
             /\ DOMAIN res'[r].body = {"result"}
             /\ invoked'[r] = <<>>]_vars

\* A tools/list request has been answered with {tools: []} while the
\* registry is empty.
C12_Witness ==
  \E r \in Slots :
    /\ pc[r] = "done"
    /\ body[r] = MethodOnly(Str("tools/list"))
    /\ tools = <<>>
    /\ res[r] = [statusCode |-> 200,
                 body |-> [result |-> Obj("tools" :> Arr(<<>>))]]

\* C13: every POST request that handleRequest has received is answered: its
\* response is written and ended.
C13_EveryRequestAnswered ==
  \A r \in Reqs : (pc[r] = "body") ~> (pc[r] = "done")

\* The request has failed: it has been left without a response, or its
\* response has an error arm.
Failed(r) ==
  \/ pc[r] = "unanswered"
  \/ pc[r] = "done" /\ "error" \in DOMAIN res[r].body

\* C14: with requests on several connections, whatever their payloads and
\* however execute fails, the process runs and the transport listens in
\* every state; a connection whose request is over accepts the next request
\* and a request in flight can take its next step, whatever has become of
\* the requests on the other connections; and every request received is
\* handled to its end, also when another request has failed.  The end of a
\* request is its response, or for a request whose own execute returned a
\* value JSON.stringify throws on, the state without a response.
C14_RequestsNeverStopGateway ==
  /\ [](process = "running" /\ server = "listening")
  /\ [](\A r \in Slots :
          /\ pc[r] \in {"idle", "done"} =>
               /\ ENABLED HandleRequest(r, "GET")
               /\ ENABLED HandleRequest(r, "POST")
          /\ pc[r] = "body" =>
               \A b \in ServeBodies : ENABLED BodyParsed(r, b)
          /\ pc[r] = "execute" =>
               \A o \in ServeOutcomes : ENABLED ExecuteSettles(r, o)
          /\ pc[r] = "executeTool" => ENABLED ExecuteToolSettles(r)
          /\ pc[r] = "handleToolsCall" => ENABLED ToolsCallSettles(r)
          /\ pc[r] = "respond" => ENABLED RouteSettles(r))
  /\ \A r, q \in ServeReqs :
       (r # q /\ Failed(r) /\ pc[q] = "body") ~>
         (\/ pc[q] = "done"
          \/ pc[q] = "unanswered" /\ JSONthrows(settled[q].value))

\* A request has been left without a response, because the tool returned a
\* value JSON.stringify throws on; the process is running, and a request on
\* another connection has been answered with the result of its call.
C14_Witness ==
  \E r, q \in Slots :
    /\ pc[r] = "unanswered"
    /\ settled[r] = Returns(BigInt)
    /\ res[r] = NoRes
    /\ process = "running"
    /\ pc[q] = "done"
    /\ res[q] = [statusCode |-> 200,
                 body |-> [result |-> Obj("echo" :> Str("London"))]]

\* The names listed in the `required` of an object schema.
RequiredOf(schema) ==
  LET required == Get(schema, "required") IN
  IF required.kind = "array"
  THEN {required.items[i].str : i \in 1..Len(required.items)}
  ELSE {}

\* The value satisfies the schema: an object has every required field and
\* each declared field it has satisfies the field's schema, a primitive is of
\* the declared kind, an array has conforming elements, and a missing or
\* unknown kind is satisfied by every value.
RECURSIVE Satisfies(_, _)
Satisfies(schema, v) ==
  LET ty == Get(schema, "type")
      properties == Get(schema, "properties")
  IN
  CASE ty = Str("object") ->
         /\ v.kind = "object"
         /\ RequiredOf(schema) \subseteq Keys(v)
         /\ \A key \in Keys(v) \cap Keys(properties) :
              Satisfies(properties.props[key], v.props[key])
    [] ty \in {Str("string"), Str("number"), Str("boolean")} -> v.kind = ty.str
    [] ty = Str("array") ->
         /\ v.kind = "array"
         /\ Truthy(Get(schema, "items")) =>
              \A i \in 1..Len(v.items) :
                Satisfies(Get(schema, "items"), v.items[i])
    [] OTHER -> TRUE

\* C15: validate reports every value that satisfies the schema as
\* conformant, a value that omits fields outside `required` included.
C15_SatisfyingValueConformant ==
  (validation.called /\ Satisfies(validation.schema, validation.params)) =>
    validation.result = TRUE

\* The fields listed in a `required` of the schema, at the top level or in a
\* nested object property, that the value lacks.
RECURSIVE MissingFields(_, _)
MissingFields(schema, v) ==
  LET properties == Get(schema, "properties") IN
  IF Get(schema, "type") = Str("object") /\ v.kind = "object"
  THEN (RequiredOf(schema) \ Keys(v))
       \cup UNION {MissingFields(properties.props[key], v.props[key]) :
                     key \in Keys(v) \cap Keys(properties)}
  ELSE {}

\* What validate returned names the field: it is not a bare boolean and
\* lists the field among its violations.
ResultNames(result, field) ==
  result \notin BOOLEAN /\ field \in result.violations

\* C16: validate reports a value that lacks a required field, at the top
\* level or in a nested object, as non-conformant and names every such
\* field.
C16_MissingRequiredReported ==
  (/\ validation.called
   /\ MissingFields(validation.schema, validation.params) # {}) =>
    /\ validation.result = FALSE
    /\ \A field \in MissingFields(validation.schema, validation.params) :
         ResultNames(validation.result, field)

\* v with a field that no schema declares.
WithExtra(v) == Obj(v.props @@ ("extra" :> Bool(TRUE)))

\* The values made from v by adding an undeclared field at the top level or
\* inside one of its nested objects.
Extended(v) ==
  IF v.kind = "object"
  THEN {WithExtra(v)}
       \cup {Obj([v.props EXCEPT ![key] = WithExtra(v.props[key])]) :
               key \in {k \in Keys(v) : v.props[k].kind = "object"}}
  ELSE {}

\* C17: a value with an undeclared field added, at the top level or in a
\* nested object, gets from validate the outcome the value itself got.
C17_UndeclaredFieldsIgnored ==
  validation.called =>
    \A w \in Extended(validation.params) :
      validate(ToolWith(validation.schema), w) = validation.result

\* validate has accepted an address with city and zip; the value can take an
\* undeclared field at the top level and one inside the address.
C17_Witness ==
  /\ validation.called
  /\ validation.schema = AddressSchema
  /\ validation.params =
       Address(Obj(("city" :> Str("Paris")) @@ ("zip" :> Str("75001"))))
  /\ validation.result = TRUE
  /\ Cardinality(Extended(validation.params)) = 2

\* Every present value of a field declared string, number or boolean, in v
\* or nested in it, is of the very kind declared.
RECURSIVE PrimitivesExact(_, _)
PrimitivesExact(prop, v) ==
  LET ty == Get(prop, "type")
      properties == Get(prop, "properties")
  IN
  CASE ty \in {Str("string"), Str("number"), Str("boolean")} -> v.kind = ty.str
    [] ty = Str("object") /\ v.kind = "object" ->
         \A key \in Keys(v) \cap Keys(properties) :
           PrimitivesExact(properties.props[key], v.props[key])
    [] ty = Str("array") /\ v.kind = "array"
       /\ Truthy(Get(prop, "items")) ->
         \A i \in 1..Len(v.items) :
           PrimitivesExact(Get(prop, "items"), v.items[i])
    [] OTHER -> TRUE

\* C18: validate accepts a value only if each of its fields declared string,
\* number or boolean holds a value of exactly that kind.
C18_PrimitiveKindsExact ==
  (/\ validation.called
   /\ validation.result = TRUE
   /\ Get(validation.schema, "type") = Str("object")) =>
    PrimitivesExact(validation.schema, validation.params)

\* validate has rejected the numeric string "5" for the field age, declared
\* number.
C18_Witness ==
  /\ validation.called
  /\ validation.schema = PersonSchema
  /\ validation.params = Person("age", Str("5"))
  /\ validation.result = FALSE

\* C19: no step of request handling changes the registry: a step after
\* which the entries, their names or their descriptors are not the same is
\* no step of request handling.
C19_RequestsLeaveRegistry ==
  [][~(/\ tools' = tools
       /\ MapKeys(tools') = MapKeys(tools)
       /\ listTools(tools') = listTools(tools)
       /\ getToolCount(tools') = getToolCount(tools)) =>
       \A r \in Slots :
         ~(\/ \E method \in HttpMethods : HandleRequest(r, method)
           \/ \E b \in Bodies : BodyParsed(r, b)
           \/ RouteSettles(r)
           \/ BodyError(r)
           \/ \E o \in Outcomes : ExecuteSettles(r, o)
           \/ ExecuteToolSettles(r)
           \/ ToolsCallSettles(r))]_vars

\* A call has ended in an execution failure and the registry still holds the
\* two tools that were registered.
C19_Witness ==
  \E r \in Slots :
    /\ pc[r] = "done"
    /\ settled[r] = ThrowsValue
    /\ MapKeys(tools) = {"get-weather", "echo"}
    /\ Cardinality(registered) = 2

\* The step leaves every request other than r as it was.
OthersUntouched(r) ==
  \A q \in Slots \ {r} :
    /\ pc'[q] = pc[q]
    /\ body'[q] = body[q]
    /\ invoked'[q] = invoked[q]
    /\ settled'[q] = settled[q]
    /\ mcpResponse'[q] = mcpResponse[q]
    /\ res'[q] = res[q]

\* Requests r and q have the same inputs and have come as far: the same
\* HTTP method, the same body, the same outcome of their own execute.
SameInputs(r, q) ==
  /\ pc[r] = pc[q]
  /\ httpMethod[r] = httpMethod[q]
  /\ body[r] = body[q]
  /\ settled[r] = settled[q]

\* C20: with several requests in flight against one registry, interleaved
\* in any order at every suspension point, what a request gets depends on
\* its own inputs alone: two requests with the same inputs have the same
\* invocation, the same MCPResponse and the same response, whether they were
\* handled one after the other or interleaved with other requests; a step of
\* one request leaves every other request as it was; and the response of a
\* call carries the result or the error message of its own execute.
C20_RequestsIndependent ==
  /\ [](tools = StartupTools)
  /\ [](\A r, q \in Slots :
          SameInputs(r, q) =>
            /\ invoked[r] = invoked[q]
            /\ mcpResponse[r] = mcpResponse[q]
            /\ res[r] = res[q])
  /\ [](\A r \in Slots :
          pc[r] = "done" =>
            /\ settled[r].kind = "return" =>
                 res[r].body = [result |-> settled[r].value]
            /\ settled[r].kind = "throwError" =>
                 res[r].body =
                   [error |-> [code |-> ToolCallErrorCode,
                               message |-> Msg("", settled[r].message, "")]])
  /\ [][\A r \in Slots :
          (\/ \E method \in HttpMethods : HandleRequest(r, method)
           \/ \E b \in Bodies : BodyParsed(r, b)
           \/ BodyError(r)
           \/ \E o \in Outcomes : ExecuteSettles(r, o)
           \/ ExecuteToolSettles(r)
           \/ ToolsCallSettles(r)
           \/ RouteSettles(r)) => OthersUntouched(r)]_vars

\* Two requests called the same tool with the same arguments and both
\* executes have settled before either response is sent: one waits to be
\* answered with the result of its own execute, the other, whose execute
\* failed, with its own error.
C20_Witness ==
  \E r1, r2 \in Slots :
    /\ r1 # r2
    /\ invoked[r1] # <<>> /\ invoked[r1] = invoked[r2]
    /\ pc[r1] = "respond"
    /\ settled[r1] = Returns(Obj("echo" :> Str("London")))
    /\ res[r1] = NoRes
    /\ mcpResponse[r1] = [result |-> Obj("echo" :> Str("London"))]
    /\ pc[r2] = "respond"
    /\ settled[r2] = ThrowsError("upstream unavailable")
    /\ res[r2] = NoRes
    /\ mcpResponse[r2] =
         [error |-> [code |-> ToolCallErrorCode,
                     message |-> Msg("", "upstream unavailable", "")]]

\* The arguments handleToolsCall hands to executeTool: `args || {}`.
CallArgs(b) == IF Truthy(ArgsOf(b)) THEN ArgsOf(b) ELSE EmptyObj

\* The call names a registered tool and its arguments conform.
Conformant(m, b) ==
  /\ HasTarget(b)
  /\ hasTool(m, TargetOf(b).str)
  /\ validate(MapGet(m, TargetOf(b).str), CallArgs(b))

\* A call request that has been answered with a result arm has had its
\* execute invoked, once, and the result is the one that invocation
\* returned.
ResultsComeFromExecute ==
  \A r \in Slots :
    (/\ pc[r] = "done"
     /\ IsCallBody(body[r])
     /\ "result" \in DOMAIN mcpResponse[r]) =>
      /\ Len(invoked[r]) = 1
      /\ settled[r].kind = "return"
      /\ mcpResponse[r].result = settled[r].value

\* C21: a call request invokes execute at most once: once when the tool is
\* found and the arguments conform, not at all otherwise; no later step of
\* the request, after a failure of execute included, invokes it again; a
\* response is sent either without an invocation or after the one
\* invocation has settled, and a conformant call is answered only after its
\* own invocation has settled.
C21_ExecuteAtMostOnce ==
  [][\A r \in Slots :
       /\ Len(invoked'[r]) <= 1
       /\ \A b \in Bodies :
            BodyParsed(r, b) =>
              IF IsCallBody(b) /\ Conformant(tools, b)
              THEN /\ Len(invoked'[r]) = 1
                   /\ pc'[r] = "execute"
                   /\ res'[r] = NoRes
              ELSE invoked'[r] = <<>>
       /\ \A o \in Outcomes :
            ExecuteSettles(r, o) =>
              /\ invoked'[r] = invoked[r]
              /\ pc'[r] # "execute"
       /\ (ExecuteToolSettles(r) \/ ToolsCallSettles(r) \/ BodyError(r)) =>
            /\ invoked'[r] = invoked[r]
            /\ pc'[r] # "execute"
       /\ RouteSettles(r) =>
            /\ invoked'[r] = invoked[r]
            /\ pc'[r] # "execute"
            /\ invoked[r] = <<>> \/ settled[r] # NoOutcome
            /\ (IsCallBody(body[r]) /\ Conformant(tools, body[r])) =>
                 Len(invoked[r]) = 1 /\ settled[r] # NoOutcome
       /\ ResultsComeFromExecute']_vars

\* Two requests made the same call.  The execute of the first failed and
\* the request has been answered after that one invocation; the execute of
\* the second has settled too, after its own one invocation, and its
\* response is not sent yet.
C21_Witness ==
  \E r1, r2 \in Slots :
    /\ pc[r1] = "done"
    /\ settled[r1] = ThrowsError("upstream unavailable")
    /\ Len(invoked[r1]) = 1
    /\ DOMAIN res[r1].body = {"error"}
    /\ pc[r2] = "executeTool"
    /\ settled[r2] = Returns(Obj("echo" :> Str("London")))
    /\ invoked[r2] = invoked[r1]
    /\ res[r2] = NoRes

\* Every registerTool call of main has returned normally.
StartupRegistered ==
  /\ main.next > Len(main.startup)
  /\ \A i \in 1..Len(main.startup) :
       /\ main.startup[i] \in registered
       /\ hasTool(tools, main.startup[i].name)
       /\ MapGet(tools, main.startup[i].name) = main.startup[i]
  /\ getToolCount(tools) = Len(main.startup)

\* C22: the transport listens only when every registerTool call of main has
\* succeeded, and a request is handled only when the transport listens; a
\* registerTool call of main on a name already registered exits the process
\* with code 1, the transport not started.
C22_ListenAfterRegistration ==
  /\ [](/\ server # "null" => StartupRegistered
        /\ \A r \in Slots :
             pc[r] # "idle" => server = "listening" /\ StartupRegistered)
  /\ [][(MainRegister /\ hasTool(tools, main.startup[main.next].name)) =>
          /\ process' = "exited"
          /\ main'.pc = "exited"
          /\ main'.exitCode = 1
          /\ server' = "null"
          /\ tools' = tools]_vars
  /\ [][server = "null" /\ server' # "null" =>
          \E listens \in BOOLEAN : MainStart(listens)]_vars

\* main registered get-weather and then a second tool named get-weather: the
\* process has exited with code 1, the transport was never started and no
\* request has been handled.
C22_Witness ==
  /\ main.startup = <<WeatherAPITool, OtherWeatherTool>>
  /\ process = "exited"
  /\ main.exitCode = 1
  /\ regCall.threw
  /\ server = "null"
  /\ getToolCount(tools) = 1
  /\ \A r \in Slots : pc[r] = "idle"

\* The error arm lists the names: a field of it, other than code and
\* message, holds them.
ListsKnownNames(err, names) ==
  \E field \in DOMAIN err \ {"code", "message"} : err[field] = names

\* C23: the response to a call whose target is not registered carries the
\* requested name and the set of the names in the registry.
C23_NotFoundListsKnownNames ==
  \A r \in Slots :
    (/\ pc[r] = "done"
     /\ HasTarget(body[r])
     /\ ~hasTool(tools, TargetOf(body[r]).str)) =>
      /\ DOMAIN res[r].body = {"error"}
      /\ res[r].body.error.message.arg = TargetOf(body[r]).str
      /\ ListsKnownNames(res[r].body.error, MapKeys(tools))

\* C24: a tool whose registerTool call succeeded stays resolvable under its
\* name, and the name resolves to that tool; no step removes an entry or
\* puts another tool under a name, and getToolCount() never decreases.
C24_RegistrationPersists ==
  /\ [](\A t \in registered :
          hasTool(tools, t.name) /\ MapGet(tools, t.name) = t)
  /\ [][/\ \A name \in MapKeys(tools) :
            /\ hasTool(tools', name)
            /\ MapGet(tools', name) = MapGet(tools, name)
        /\ getToolCount(tools') >= getToolCount(tools)
        /\ registered \subseteq registered']_vars

\* get-weather was registered, then echo, then a second tool named
\* get-weather was refused, and a call has ended in a failure of execute:
\* get-weather still resolves to the first tool.
C24_Witness ==
  /\ registered = {WeatherAPITool, EchoTool}
  /\ regCall.threw
  /\ regCall.message.arg = "get-weather"
  /\ tools[1].key = "get-weather"
  /\ MapGet(tools, "get-weather") = WeatherAPITool
  /\ getToolCount(tools) = 2
  /\ \E r \in Slots : pc[r] = "done" /\ settled[r] = ThrowsValue

\* The order of the levels: debug < info < warning < error.
LevelOrder == <<"debug", "info", "warning", "error">>

\* Level l is at least level c in that order.
AtLeast(l, c) ==
  \A i, j \in 1..Len(LevelOrder) :
    (LevelOrder[i] = l /\ LevelOrder[j] = c) => i >= j

\* C25: a log call at level L writes one line, and returns, if L is at
\* least the current level in the order debug < info < warning < error, and
\* writes nothing otherwise; the current level is info at first and only
\* setLevel changes it; setLevel changes nothing else.
C25_LevelFilter ==
  /\ logger.currentLevel = "info"
  /\ [][/\ \A level \in LogLevels, error \in LogErrors,
               context \in LogContexts :
            Log(level, error, context) =>
              /\ Len(logger'.call.written) =
                   (IF AtLeast(level, logger.currentLevel) THEN 1 ELSE 0)
              /\ logger'.lines = logger.lines + Len(logger'.call.written)
              /\ ~logger'.call.threw
              /\ logger'.currentLevel = logger.currentLevel
        /\ \A level \in LogLevels :
            SetLevel(level) =>
              /\ logger' = [logger EXCEPT !.currentLevel = level]
              /\ UNCHANGED <<tools, regCall, registered, process, pc,
                             httpMethod, body, invoked, settled, mcpResponse,
                             res, lastList, validation, trace, server, main,
                             weather, stops, servers>>
        /\ logger'.currentLevel # logger.currentLevel =>
            \E level \in LogLevels : SetLevel(level)]_vars

\* The parameters have a location and it is a string.
HasLocation(params) ==
  params.kind = "object" /\ Get(params, "location").kind = "string"

\* C26: execute makes an outbound request only if its parameters have a
\* location that is a string and the API key is set; otherwise it fails with
\* an error and no request has been made.
C26_NoRequestBeforeValidation ==
  [][\A params \in WeatherParams :
       WeatherExecute(params) =>
         IF HasLocation(params) /\ weather.apiKey # ""
         THEN /\ weather'.pc = "request"
              /\ weather'.requests = weather.requests + 1
              /\ weather'.attempts = 1
         ELSE /\ weather'.pc = "settled"
              /\ weather'.error # NoMsg
              /\ weather'.result = Undefined
              /\ weather'.attempts = 0
              /\ weather'.requests = weather.requests]_vars

\* An instance with an API key has made one request for an earlier call;
\* execute({location: 5}) has then failed without a further request.
C26_Witness ==
  /\ weather.apiKey = "key"
  /\ weather.pc = "settled"
  /\ weather.params = Obj("location" :> Num(5))
  /\ weather.error.template =
       "Invalid parameters: location is required and must be a string"
  /\ weather.attempts = 0
  /\ weather.requests = 1

\* C27: when execute reports a failure of the outbound API request, the
\* request has been made twice: once, and once again after it failed.
C27_ApiFailureRetriedOnce ==
  (/\ weather.pc = "settled"
   /\ weather.axios.kind \in {"errorResponse", "errorRequest", "errorSetup"}) =>
    weather.attempts = 2

\* C28: a GET request is answered at once with status 200 and a body whose
\* status is ok and whose toolCount is the number of tools registered at
\* that moment; no tool is invoked for it and the registry stays as it is.
C28_HealthCheck ==
  [][\A r \in Slots :
       HandleRequest(r, "GET") =>
         /\ pc'[r] = "done"
         /\ res'[r].statusCode = 200
         /\ res'[r].body.status = "ok"
         /\ res'[r].body.toolCount = Cardinality(registered)
         /\ \A q \in Slots : invoked'[q] = IF q = r THEN <<>> ELSE invoked[q]
         /\ tools' = tools
         /\ registered' = registered]_vars

\* A GET request has been answered with toolCount 2 while the registry holds
\* two tools.
C28_Witness ==
  \E r \in Slots :
    /\ pc[r] = "done"
    /\ httpMethod[r] = "GET"
    /\ Cardinality(registered) = 2
    /\ res[r] = [statusCode |-> 200,
                 body |-> [status |-> "ok", service |-> "MCP API Converter",
                           toolCount |-> 2]]

\* C29: a call request does the registry lookup first; it validates the
\* arguments only if the lookup found the tool, and invokes execute only if
\* validation accepted them.  A call that stopped at the lookup gets the
\* not-found error when handleToolsCall resumes, whatever its arguments
\* are, one that stopped at validate the invalid-parameters error, and that
\* error is the response sent.
C29_LookupValidateExecute ==
  [][\A r \in Slots :
       /\ \A b \in Bodies :
            (BodyParsed(r, b) /\ HasTarget(b)) =>
              IF ~hasTool(tools, TargetOf(b).str)
              THEN /\ CallStepsOf(trace'[r]) = <<"lookup">>
                   /\ pc'[r] = "executeTool"
                   /\ invoked'[r] = <<>>
              ELSE IF ~validate(MapGet(tools, TargetOf(b).str), CallArgs(b))
              THEN /\ CallStepsOf(trace'[r]) = <<"lookup", "validate">>
                   /\ pc'[r] = "executeTool"
                   /\ invoked'[r] = <<>>
              ELSE /\ CallStepsOf(trace'[r]) =
                        <<"lookup", "validate", "execute">>
                   /\ Len(invoked'[r]) = 1
                   /\ pc'[r] = "execute"
       /\ (ExecuteToolSettles(r) /\ invoked[r] = <<>>) =>
            /\ trace'[r] = trace[r]
            /\ invoked'[r] = <<>>
            /\ mcpResponse'[r] =
                 IF CallStepsOf(trace[r]) = <<"lookup">>
                 THEN CallError("Tool '%s' not found",
                                TargetOf(body[r]).str)
                 ELSE CallError("Invalid parameters for tool '%s'",
                                TargetOf(body[r]).str)
       /\ (RouteSettles(r) /\ HasTarget(body[r]) /\ invoked[r] = <<>>) =>
            /\ CallStepsOf(trace'[r]) \in
                 {<<"lookup">>, <<"lookup", "validate">>}
            /\ res'[r] = [statusCode |-> 200, body |-> mcpResponse[r]]
            /\ mcpResponse[r] =
                 IF CallStepsOf(trace[r]) = <<"lookup">>
                 THEN CallError("Tool '%s' not found",
                                TargetOf(body[r]).str)
                 ELSE CallError("Invalid parameters for tool '%s'",
                                TargetOf(body[r]).str)]_vars

\* A call to does-not-exist with the number 5 for arguments, which no object
\* schema accepts, has been answered with the not-found error after the
\* lookup alone.
C29_Witness ==
  \E r \in Slots :
    /\ pc[r] = "done"
    /\ body[r] = Call("does-not-exist", Num(5))
    /\ getToolCount(tools) = 2
    /\ \A i \in 1..Len(tools) : ~validate(tools[i].value, Num(5))
    /\ CallStepsOf(trace[r]) = <<"lookup">>
    /\ res[r].body = CallError("Tool '%s' not found", "does-not-exist")

\* The states of a request, in the order of the life cycle; Listed and
\* Dispatched share a place, and so do the two terminal states.
Rank(state) ==
  CASE state = "Received" -> 1
    [] state = "Parsed" -> 2
    [] state = "MethodValidated" -> 3
    [] state \in {"Listed", "Dispatched"} -> 4
    [] state \in {"Responded", "ErrorResponded"} -> 5

\* The states among the steps of a request.
StatesOf(tr) ==
  SelectSeq(tr, LAMBDA step : step \notin {"lookup", "validate", "execute"})

IsTerminal(state) == state \in {"Responded", "ErrorResponded"}

\* The request has reached a terminal state.
Ended(tr) == \E i \in 1..Len(tr) : IsTerminal(tr[i])

\* The states a protocol request has gone through form a path of the life
\* cycle: it starts in Received, each step goes to the next state or takes
\* the failure exit to ErrorResponded, nothing follows a terminal state, and
\* a response has been written exactly when a terminal state is reached.
OnLifeCycle(r) ==
  LET st == StatesOf(trace[r]) IN
  /\ pc[r] # "idle" => Len(st) >= 1 /\ st[1] = "Received"
  /\ \A i \in 1..(Len(st) - 1) :
       /\ ~IsTerminal(st[i])
       /\ \/ Rank(st[i + 1]) = Rank(st[i]) + 1
          \/ st[i + 1] = "ErrorResponded"
  /\ Cardinality({i \in 1..Len(st) : IsTerminal(st[i])}) <= 1
  /\ Ended(st) <=> res[r] # NoRes
  /\ Ended(st) <=> pc[r] = "done"
  /\ (Ended(st) /\ st[Len(st)] = "Responded") => res[r].statusCode = 200
  /\ (Ended(st) /\ st[Len(st)] = "ErrorResponded") => res[r].statusCode # 200

\* C30: a protocol (POST) request goes through Received, Parsed,
\* MethodValidated and then Listed or Dispatched in that order, no state
\* skipped or entered twice, with the failure exit to ErrorResponded open
\* from each of them; nothing follows Responded or ErrorResponded, and at
\* most one response is written: once written it is not written again.
C30_RequestLifeCycle ==
  /\ [](\A r \in Slots : httpMethod[r] \notin {"GET", "OPTIONS"} =>
                            OnLifeCycle(r))
  /\ [][\A r \in Slots :
          (Ended(trace[r]) /\ (trace'[r] # trace[r] \/ res'[r] # res[r])) =>
            \E method \in HttpMethods : HandleRequest(r, method)]_vars

\* A call has gone through every state of the life cycle and the statements
\* of executeTool, execute has failed, and the one response has been
\* written.
C30_Witness ==
  \E r \in Slots :
    /\ trace[r] = <<"Received", "Parsed", "MethodValidated", "Dispatched",
                    "lookup", "validate", "execute", "Responded">>
    /\ settled[r] = ThrowsError("upstream unavailable")
    /\ DOMAIN res[r].body = {"error"}
    /\ pc[r] = "done"

\* The request body has no `arguments` member in its params.
OmitsArguments(b) == "arguments" \notin Keys(Get(b, "params"))

\* C31: a call to a registered tool that omits arguments is validated and
\* executed with {}: when the tool's schema requires no field, execute is
\* invoked with {}; when it requires one, the call stops at validate, gets
\* the invalid-parameters error when handleToolsCall resumes, which is the
\* response sent, and execute is not invoked.
C31_OmittedArgumentsAreEmpty ==
  [][\A r \in Slots :
       /\ \A b \in ArgBodies :
            (/\ BodyParsed(r, b)
             /\ OmitsArguments(b)
             /\ hasTool(tools, TargetOf(b).str)) =>
              LET tool == MapGet(tools, TargetOf(b).str) IN
              IF RequiredOf(tool.inputSchema) = {}
              THEN /\ invoked'[r] = <<[tool |-> tool, params |-> EmptyObj]>>
                   /\ pc'[r] = "execute"
                   /\ res'[r] = NoRes
              ELSE /\ invoked'[r] = <<>>
                   /\ pc'[r] = "executeTool"
                   /\ CallStepsOf(trace'[r]) = <<"lookup", "validate">>
                   /\ res'[r] = NoRes
       /\ (/\ ExecuteToolSettles(r)
           /\ OmitsArguments(body[r])
           /\ CallStepsOf(trace[r]) = <<"lookup", "validate">>) =>
             /\ mcpResponse'[r] =
                  CallError("Invalid parameters for tool '%s'",
                            TargetOf(body[r]).str)
             /\ invoked'[r] = <<>>
       /\ (/\ RouteSettles(r)
           /\ OmitsArguments(body[r])
           /\ CallStepsOf(trace[r]) = <<"lookup", "validate">>) =>
             /\ pc'[r] = "done"
             /\ mcpResponse[r] =
                  CallError("Invalid parameters for tool '%s'",
                            TargetOf(body[r]).str)
             /\ res'[r] = [statusCode |-> 200, body |-> mcpResponse[r]]
             /\ invoked'[r] = <<>>]_vars

\* A call to echo without arguments has invoked execute with {}, while the
\* tool with a required field is registered too.
C31_Witness ==
  \E r \in Slots :
    /\ pc[r] = "execute"
    /\ body[r] = CallNoArgs("echo")
    /\ invoked[r] = <<[tool |-> EchoTool, params |-> EmptyObj]>>
    /\ hasTool(tools, "get-weather")

ArrayFields(schema) ==
  {key \in Keys(Get(schema, "properties")) :
     Get(Get(schema, "properties").props[key], "type") = Str("array")}

\* The value is a sequence and each of its elements satisfies the element
\* schema of the field, when the field declares one.
ElementsConform(prop, v) ==
  /\ v.kind = "array"
  /\ Truthy(Get(prop, "items")) =>
       \A i \in 1..Len(v.items) : Satisfies(Get(prop, "items"), v.items[i])

\* C33: validate accepts a value only if every field declared array that it
\* has holds a sequence whose elements all conform to the element schema;
\* and when the schema declares array fields alone, it accepts every value
\* whose present fields do, the empty sequence included.
C33_ArrayElementsValidated ==
  (/\ validation.called
   /\ Get(validation.schema, "type") = Str("object")
   /\ validation.params.kind = "object") =>
    LET schema == validation.schema
        params == validation.params
        properties == Get(schema, "properties")
        present == ArrayFields(schema) \cap Keys(params)
    IN
    /\ validation.result = TRUE =>
         \A key \in present :
           ElementsConform(properties.props[key], params.props[key])
    /\ (/\ ArrayFields(schema) = Keys(properties)
        /\ RequiredOf(schema) \subseteq Keys(params)
        /\ \A key \in present :
             ElementsConform(properties.props[key], params.props[key])) =>
         validation.result = TRUE

\* validate has rejected a sequence of strings whose first element is a
\* number.
C33_Witness ==
  /\ validation.called
  /\ validation.schema = TagsSchema
  /\ validation.params = Obj("tags" :> Arr(<<Num(5), Str("a")>>))
  /\ validation.result = FALSE

\* The schema of the field declares no kind, or one that convertPropertyToZod
\* has no case for.
UnknownKind(prop) ==
  Get(prop, "type") \notin
    {Str("string"), Str("number"), Str("boolean"), Str("array"), Str("object")}

\* C34: validate reports every value conformant under a top-level schema
\* whose kind is not object, and every keyed structure conformant under an
\* object schema whose fields all have a missing or unrecognised kind,
\* whatever values the fields hold.
C34_UnknownKindAcceptsAnything ==
  validation.called =>
    LET schema == validation.schema
        params == validation.params
        properties == Get(schema, "properties")
    IN
    /\ Get(schema, "type") # Str("object") => validation.result = TRUE
    /\ (/\ Get(schema, "type") = Str("object")
        /\ params.kind = "object"
        /\ RequiredOf(schema) \subseteq Keys(params)
        /\ \A key \in Keys(properties) : UnknownKind(properties.props[key])) =>
         validation.result = TRUE

\* validate has accepted a string under the field count, declared integer.
C34_Witness ==
  /\ validation.called
  /\ validation.schema = CountSchema
  /\ validation.params = Obj("count" :> Str("a"))
  /\ validation.result = TRUE

\* C35: every tool in the registry has a non-empty name, and so has every
\* descriptor that list returns.
C35_NamesNonEmpty ==
  /\ \A i \in 1..Len(tools) : tools[i].key # "" /\ tools[i].value.name # ""
  /\ \A i \in 1..Len(lastList.tools.items) :
       Get(lastList.tools.items[i], "name") # Str("")

\* The request has gone through the step.
Reached(tr, step) == \E i \in 1..Len(tr) : tr[i] = step

\* The HTTP response has the status and an error arm alone.
IsErrorWithStatus(rs, statusCode) ==
  rs.statusCode = statusCode /\ DOMAIN rs.body = {"error"}

\* C36: a request that fails before dispatch (undecodable body, missing or
\* unsupported method, missing call target) is answered with status 400 and
\* an error body; a call that fails once dispatched (unknown tool, invalid
\* arguments, failure of execute) gets an error arm for its MCPResponse,
\* which is sent with status 200; the catch block of handleRequest answers
\* with status 500 a thrown value that is not an Error, and no other; and no
\* response has status 500: the one value thrown that is not an Error is
\* thrown by execute, inside a dispatched call, and is answered with status
\* 200.
C36_StatusByFailureStage ==
  /\ [](\A class \in {"SyntaxError", "Error", "value"} :
          handleRequestCatch(class, Msg("", "aborted", "")).statusCode = 500
            <=> class = "value")
  /\ [](\A r \in Slots : res[r].statusCode # 500)
  /\ [][\A r \in Slots :
          /\ \A b \in Bodies :
               BodyParsed(r, b) =>
                 /\ (NoValidMethod(b) \/ (IsCallBody(b) /\ ~HasTarget(b))) =>
                      /\ IsErrorWithStatus(res'[r], 400)
                      /\ ~Reached(trace'[r], "Dispatched")
                 /\ (HasTarget(b) /\ ~Conformant(tools, b)) =>
                      /\ pc'[r] = "executeTool"
                      /\ res'[r] = NoRes
                      /\ settled'[r] = NoOutcome
                      /\ Reached(trace'[r], "Dispatched")
          /\ (ExecuteToolSettles(r) /\ settled[r].kind # "return") =>
               /\ DOMAIN mcpResponse'[r] = {"error"}
               /\ Reached(trace'[r], "Dispatched")
          /\ (RouteSettles(r) /\ "error" \in DOMAIN mcpResponse[r]) =>
               /\ IsErrorWithStatus(res'[r], 200)
               /\ res'[r].body = mcpResponse[r]
               /\ Reached(trace'[r], "Dispatched")
          /\ (RouteSettles(r) /\ settled[r].kind \in {"throwError",
                                                      "throwValue"}) =>
               IsErrorWithStatus(res'[r], 200)]_vars

\* A call whose execute threw a value that is not an Error has been
\* answered with status 200 and an error body.
C36_Witness ==
  \E r \in Slots :
    /\ pc[r] = "done"
    /\ body[r] = Call("get-weather", London)
    /\ settled[r] = ThrowsValue
    /\ IsErrorWithStatus(res[r], 200)
    /\ Reached(trace[r], "Dispatched")

\* The transport is as its constructor left it: it holds no server, no
\* stop() call waits, and no server that a start() of it created listens or
\* serves the connections it has.
NotRunning ==
  /\ server = "null"
  /\ stops.pending = <<>>
  /\ \A id \in 1..Len(servers.made) :
       servers.made[id] \notin {"listening", "closing"}

\* One of the stop() calls the step settled has resolved.
StopSucceeded(stopped) == \E i \in 1..Len(stopped) : ~stopped[i].threw

\* C37: stop() on a transport that holds no server returns without an
\* error and changes nothing; and when a stop() of a started transport
\* succeeds, the transport is not running, as before start: it holds no
\* server, so that a further stop() is such a call, and none of its servers
\* listens or serves.
C37_StopIdempotent ==
  [][/\ (TransportStop /\ server = "null") =>
          /\ stops'.settled = <<[caller |-> "caller", threw |-> FALSE]>>
          /\ server' = server
          /\ stops'.pending = stops.pending
          /\ UNCHANGED <<tools, regCall, registered, process, pc, httpMethod,
                         body, invoked, settled, mcpResponse, res, lastList,
                         trace, main, servers>>
     /\ (ServerClosed /\ StopSucceeded(stops'.settled)) => NotRunning']_vars

\* C38: when the process has exited after a first signal SIGTERM or SIGINT
\* that found the transport listening, the transport holds no server any
\* more and the exit code is 0, also when further signals or exceptions
\* have called shutdown before the server had closed.
C38_ShutdownExitsZero ==
  (/\ main.pc = "exited"
   /\ main.signals # <<>>
   /\ main.signals[1].signal \in {"SIGTERM", "SIGINT"}
   /\ main.signals[1].server = "listening") =>
    /\ server = "null"
    /\ main.exitCode = 0

\* The process has exited with code 0 after SIGTERM and then, while the
\* server was closing, an uncaught exception whose stop() call was
\* rejected.
C38_Witness ==
  /\ main.pc = "exited"
  /\ process = "exited"
  /\ Len(main.signals) = 2
  /\ main.signals[1] = [signal |-> "SIGTERM", server |-> "listening"]
  /\ main.signals[2] = [signal |-> "uncaughtException", server |-> "closing"]
  /\ Len(stops.settled) = 2
  /\ stops.settled[2].threw
  /\ main.exitCode = 0

====
